---- MODULE Spec2Model ----
(***************************************************************************)
(* A model of git_cdn's serialization engine: the coroutine/process lock   *)
(* manager (git_cdn/aiolock.py), the cross-process semaphore wrapper       *)
(* (git_cdn/aiosemaphore.py), the pack cache (git_cdn/pack_cache.py) and   *)
(* the upload-pack handler with its mirror (git_cdn/upload_pack.py,        *)
(* git_cdn/repo_cache.py).                                                 *)
(*                                                                         *)
(* Each component has its own next-state relation and specification; the   *)
(* variables of the other components stay at their initial values.         *)
(***************************************************************************)
EXTENDS Naturals, Integers, Sequences, FiniteSets, TLC

(***************************************************************************)
(* Bounds of the model.                                                    *)
(***************************************************************************)
\* worker processes sharing one lock path
NumProcs == 2
\* coroutines: one in each process but the first, which runs all the others
NumTasks == 4
\* cap on the length of one waiter deque (cancelled futures stay queued)
MaxQueue == 2
\* permits of the cross-process BoundedSemaphore
SemCount == 1
\* concurrent requests for one pack-cache fingerprint (the last one is served
\* by the second worker process, the others by the first)
NumReqs == 3
\* git-upload-pack children (each with its cache_pack) alive at once
MaxJobs == 2
\* files that exist at once under the entry's path (unlinked ones included)
MaxIno == 2
\* git-upload-pack children started in one run
MaxSpawn == 2
\* attempts of one clone or fetch (BACKOFF_COUNT)
BackoffTries == 2
\* clone/fetch children left behind at once
MaxOrphans == 1
\* pkt-lines in one request body
MaxLines == 3
\* pkt-lines standing for the first 128 bytes of a body
ErrPrefix == 2
\* values uuid.uuid4() may return
MaxUuid == 2
\* bytes in a cache entry file
MaxBytes == 5
\* entries of the pack cache directory, the size of one, the ticks of the
\* file system's clock, and the cleaner's max_size
NumEntries == 3
MaxSize == 2
MaxClock == 4
MaxCacheSize == 3
\* packets in one output of git-upload-pack
MaxPkts == 4
\* children being terminated at once, and the waits and signals of one call
NumKids == 2
MaxEvents == 7
\* the tasks that use one clone bundle at once
NumBundleTasks == 3
\* the tasks that take the locks of one entry, mirror and bundle at once
NumOrderTasks == 3
\* stdout.read(8) in first_chunk()
FirstChunkMax == 8

Procs == 1..NumProcs
Tasks == 1..NumTasks
ProcOf(t) == IF t > NumTasks - (NumProcs - 1) THEN t - (NumTasks - NumProcs) ELSE 1

\* the marker left in a waiter deque by a future that was cancelled
CANCELLED == 0

VARIABLES
    locks,      \* aiolock: per process, the FLock record of the path
    co,         \* aiolock: per coroutine, where it is in `async with lock(..)`
    ahead,      \* history: the exclusive waiters queued when a shared request was made
    sem,        \* aiosemaphore: the value of the multiprocessing BoundedSemaphore
    sm,         \* aiosemaphore: per coroutine, its AioSemaphore wrapper and position
    pool,       \* aiosemaphore: per process, the one-thread executor running _acquire
    path,       \* pack cache: the file the entry's name refers to (0: none)
    files,      \* pack cache: the content of every file, a sequence of packets
    clk,        \* pack cache: per process, the FLock of the entry's path
    rq,         \* pack cache: per request, where it is in run_with_cache
    jobs,       \* pack cache: git-upload-pack children and their cache_pack
    ev,         \* pack cache: the cleaner's thread
    hist,       \* pack cache: the mirror's staleness and the run's history
    mir,        \* mirror: the directory (exists)
    mq,         \* mirror: per request, where it is in execute()
    orph,       \* mirror: the git clone/fetch children no run_git waits for
    up,         \* upload-pack: per request, where it is in uploadPack/doUploadPack
    stray,      \* upload-pack: the git-upload-pack children nobody waits for
    input,      \* run(): the request body, a sequence of pkt-lines
    environ,    \* run(): PACK_CACHE_MULTI and PACK_CACHE_DEPTH
    handler,    \* run(): what UploadPackHandler.run did with the body
    entry,      \* PackCache.exists(): the entry file, byte by byte
    verdict,    \* PackCache.exists(): what the call did
    store,      \* cleaner: per entry of the cache directory, its stat
    now,        \* cleaner: the file system's clock
    serving,    \* cleaner: the entries a send_pack holds the read lock of
    cleaner,    \* cleaner: the thread running _clean_task
    cleanlock,  \* throttle: clean.lock, whether it exists and is younger than 60 s
    calls,      \* throttle: per request, where its clean() call is
    scans,      \* throttle: enumerations of the cache less than 60 s apart
    stream,     \* chunk parser: the packets git-upload-pack writes
    split,      \* chunk parser: the length of the first chunk read from the pipe
    filt,       \* chunk parser: what process_chunks yielded and how it ended
    kid,        \* ensure_proc_terminated: per child, alive and returncode set
    et,         \* ensure_proc_terminated: per child, the call and what it did
    bundle,     \* clone bundle: the file is there, and it is a good bundle
    bt,         \* clone bundle: per task, what it runs and where it is
    blast,      \* clone bundle: the last change of the file and the lease held for it
    ot,         \* the tasks that take locks: path, position in it, locks held, waiting
    semq,       \* the calls queued on the thread of the semaphore's executor
    lost,       \* the permits that no task holds and that were not given back
    reuse       \* aiosemaphore: a coroutine keeps its wrapper from one acquire to the next

lockVars == <<locks, co, ahead>>
semVars == <<sem, sm, pool>>
cacheVars == <<path, files, clk, rq, jobs, ev, hist>>
mirrorVars == <<mir, mq, orph>>
upVars == <<up, stray>>
runVars == <<input, environ, handler>>
fileVars == <<entry, verdict>>
cleanVars == <<store, now, serving, cleaner>>
throttleVars == <<cleanlock, calls, scans>>
chunkVars == <<stream, split, filt>>
termVars == <<kid, et>>
bundleVars == <<bundle, bt, blast>>
orderVars == <<ot, semq, lost>>
wrapVars == <<reuse>>
vars == <<locks, co, ahead, sem, sm, pool, path, files, clk, rq, jobs, ev, hist,
          mir, mq, orph, up, stray, input, environ, handler, entry, verdict,
          store, now, serving, cleaner,
          cleanlock, calls, scans,
          stream, split, filt,
          kid, et,
          bundle, bt, blast,
          ot, semq, lost,
          reuse>>
\* what a step of one component leaves alone
notLock == <<wrapVars, orderVars, bundleVars, termVars, chunkVars, throttleVars, cleanVars, fileVars, semVars, cacheVars, mirrorVars, upVars, runVars>>
notSem == <<wrapVars, orderVars, bundleVars, termVars, chunkVars, throttleVars, cleanVars, fileVars, lockVars, cacheVars, mirrorVars, upVars, runVars>>
notCache == <<wrapVars, orderVars, bundleVars, termVars, chunkVars, throttleVars, cleanVars, fileVars, lockVars, semVars, mirrorVars, upVars, runVars>>
notMirror == <<wrapVars, orderVars, bundleVars, termVars, chunkVars, throttleVars, cleanVars, fileVars, lockVars, semVars, cacheVars, upVars, runVars>>
\* (the upload-pack component shares the semaphore's value with aiosemaphore)
notUp == <<wrapVars, orderVars, bundleVars, termVars, chunkVars, throttleVars, cleanVars, fileVars, lockVars, sm, pool, cacheVars, mirrorVars, runVars>>
notRun == <<wrapVars, orderVars, bundleVars, termVars, chunkVars, throttleVars, cleanVars, fileVars, lockVars, semVars, cacheVars, mirrorVars, upVars>>
notFile == <<wrapVars, orderVars, bundleVars, termVars, chunkVars, throttleVars, cleanVars, lockVars, semVars, cacheVars, mirrorVars, upVars, runVars>>
notClean == <<wrapVars, orderVars, bundleVars, termVars, chunkVars, throttleVars, fileVars, lockVars, semVars, cacheVars, mirrorVars, upVars, runVars>>
notThrottle == <<wrapVars, orderVars, bundleVars, termVars, chunkVars, lockVars, semVars, cacheVars, mirrorVars, upVars, runVars, fileVars, cleanVars>>
notChunks == <<wrapVars, orderVars, bundleVars, termVars, lockVars, semVars, cacheVars, mirrorVars, upVars, runVars, fileVars, cleanVars, throttleVars>>
notTerm == <<wrapVars, orderVars, bundleVars, lockVars, semVars, cacheVars, mirrorVars, upVars, runVars, fileVars, cleanVars, throttleVars, chunkVars>>
notBundle == <<wrapVars, orderVars, lockVars, semVars, cacheVars, mirrorVars, upVars, runVars, fileVars, cleanVars, throttleVars, chunkVars, termVars>>
notOrder == <<wrapVars, lockVars, semVars, cacheVars, mirrorVars, upVars, runVars, fileVars, cleanVars, throttleVars, chunkVars, termVars, bundleVars>>
notWrap == <<lockVars, semVars, cacheVars, mirrorVars, upVars, runVars, fileVars, cleanVars, throttleVars, chunkVars, termVars, bundleVars, orderVars>>

(***************************************************************************)
(* aiolock.FLock, one record per process (LockManager.locks is per         *)
(* process).  The OS-level flock is held by the process's open file from   *)
(* _acquired() to _release(), i.e. exactly while state is ACQUIRED_*.      *)
(*   granted  : futures whose result was set, owner not yet resumed        *)
(*   unlocked : _release() has run flock(LOCK_UN) and close(); the rest of *)
(*              _release() (the _try_acquire() and the removal from the    *)
(*              manager) is the step AfterUnlock                           *)
(*   try_soon : a call_soon_threadsafe(_try_acquire) callback is pending   *)
(***************************************************************************)
NewFLock ==
    [present |-> FALSE, state |-> "IDLE", lock_holder_num |-> 0,
     ex_waiters |-> <<>>, sh_waiters |-> <<>>, granted |-> {},
     unlocked |-> FALSE, try_soon |-> FALSE]

\* the flock mode a process holds on the lock file
OsHeld(l) ==
    IF l.state = "ACQUIRED_EX" THEN "EX"
    ELSE IF l.state = "ACQUIRED_SH" THEN "SH" ELSE "UN"

\* fcntl.flock(fd, mode) of process p can be granted
FlockOk(p, mode) ==
    \A q \in Procs \ {p} :
        \/ OsHeld(locks[q]) = "UN"
        \/ mode = "SH" /\ OsHeld(locks[q]) = "SH"

Acquired(l, mode) ==
    [l EXCEPT !.state = IF mode = "EX" THEN "ACQUIRED_EX" ELSE "ACQUIRED_SH",
              !.try_soon = TRUE]

TryAcquireIdle(l, mode, ok) ==
    IF ok THEN Acquired(l, mode)
    ELSE [l EXCEPT !.state = IF mode = "EX" THEN "ACQUIRING_EX" ELSE "ACQUIRING_SH"]

\* _release() up to flock(LOCK_UN), close() and state = IDLE
ReleaseOs(l) == [l EXCEPT !.state = "IDLE", !.unlocked = TRUE]

RECURSIVE DropCancelled(_)
DropCancelled(q) ==
    IF q = <<>> \/ Head(q) # CANCELLED THEN q ELSE DropCancelled(Tail(q))

Live(q) == {q[i] : i \in DOMAIN q} \ {CANCELLED}

\* mutant: _acquire_ex without the `if not self.lock_holder_num` test
AcquireEx_NoHolderTest(l) ==
    LET q == DropCancelled(l.ex_waiters) IN
    IF q = <<>> THEN (IF l.lock_holder_num = 0 THEN ReleaseOs([l EXCEPT !.ex_waiters = q]) ELSE l)
    ELSE [l EXCEPT !.ex_waiters = Tail(q),
                   !.granted = @ \cup {Head(q)},
                   !.lock_holder_num = @ + 1]

AcquireEx(l) ==
    IF l.lock_holder_num # 0 THEN l
    ELSE LET q == DropCancelled(l.ex_waiters) IN
         IF q = <<>> THEN ReleaseOs([l EXCEPT !.ex_waiters = q])
         ELSE [l EXCEPT !.ex_waiters = Tail(q),
                        !.granted = @ \cup {Head(q)},
                        !.lock_holder_num = 1]

\* mutant: _acquire_sh without the `if not self.ex_waiters` test
AcquireSh_NoWriterTest(l) ==
    LET l1 == [l EXCEPT !.granted = @ \cup Live(l.sh_waiters),
                        !.lock_holder_num = @ + Cardinality(Live(l.sh_waiters)),
                        !.sh_waiters = <<>>]
    IN IF l1.lock_holder_num = 0 THEN ReleaseOs(l1) ELSE l1

\* mutant: _acquire_sh that counts one holder for the whole batch
AcquireSh_CountOne(l) ==
    LET l1 == IF l.ex_waiters = <<>>
              THEN [l EXCEPT !.granted = @ \cup Live(l.sh_waiters),
                             !.lock_holder_num =
                                 @ + (IF Live(l.sh_waiters) = {} THEN 0 ELSE 1),
                             !.sh_waiters = <<>>]
              ELSE l
    IN IF l1.lock_holder_num = 0 THEN ReleaseOs(l1) ELSE l1

\* mutant: _acquire_sh without its last two lines, the _release() of a lock
\* that was obtained and has no holder
AcquireSh_NoRelease(l) ==
    IF l.ex_waiters = <<>>
    THEN [l EXCEPT !.granted = @ \cup Live(l.sh_waiters),
                   !.lock_holder_num = @ + Cardinality(Live(l.sh_waiters)),
                   !.sh_waiters = <<>>]
    ELSE l

AcquireSh(l) ==
    LET l1 == IF l.ex_waiters = <<>>
              THEN [l EXCEPT !.granted = @ \cup Live(l.sh_waiters),
                             !.lock_holder_num = @ + Cardinality(Live(l.sh_waiters)),
                             !.sh_waiters = <<>>]
              ELSE l
    IN IF l1.lock_holder_num = 0 THEN ReleaseOs(l1) ELSE l1

TryAcquire(l, okEx, okSh) ==
    IF l.state \in {"ACQUIRING_EX", "ACQUIRING_SH"} THEN l
    ELSE IF l.ex_waiters = <<>> /\ l.sh_waiters = <<>> THEN l
    ELSE LET mode == IF l.ex_waiters # <<>> THEN "EX" ELSE "SH" IN
         IF l.state = "IDLE"
         THEN TryAcquireIdle(l, mode, IF mode = "EX" THEN okEx ELSE okSh)
         ELSE IF l.state = "ACQUIRED_EX" THEN AcquireEx(l)
         ELSE AcquireSh(l)

\* FLock.acquire(mode) of coroutine t, after LockManager.get_lock
FLockAcquire(l, t, mode, okEx, okSh) ==
    LET l0 == [l EXCEPT !.present = TRUE]
        l1 == IF mode = "EX"
              THEN [l0 EXCEPT !.ex_waiters = Append(@, t)]
              ELSE [l0 EXCEPT !.sh_waiters = Append(@, t)]
    IN TryAcquire(l1, okEx, okSh)

\* FLock.release(mode)
FLockRelease(l) ==
    LET l1 == [l EXCEPT !.lock_holder_num = @ - 1] IN
    IF l1.lock_holder_num # 0 THEN l1 ELSE ReleaseOs(l1)

\* Future.cancel() of a pending waiter: the future stays in its deque
CancelFuture(l, t) ==
    LET mark(q) == [i \in DOMAIN q |-> IF q[i] = t THEN CANCELLED ELSE q[i]] IN
    [l EXCEPT !.ex_waiters = mark(@), !.sh_waiters = mark(@)]

\* mutant: _release() that removes the record without the test of its state
ReleaseRest_AlwaysRemove(l, okEx, okSh) == NewFLock

\* the rest of _release(): _try_acquire(), then remove_lock() when idle
ReleaseRest(l, okEx, okSh) ==
    LET l1 == TryAcquire([l EXCEPT !.unlocked = FALSE], okEx, okSh) IN
    IF l1.state = "IDLE" THEN NewFLock ELSE l1

(***************************************************************************)
(* The coroutines: `async with lock(path, mode): body`.                    *)
(***************************************************************************)
Queued(p, mode) ==
    Live(IF mode = "EX" THEN locks[p].ex_waiters ELSE locks[p].sh_waiters)

\* Lock.__aenter__: lock(), then FLock.acquire(mode) up to `await p`
Acquire(t, mode) ==
    LET p == ProcOf(t) IN
    /\ co[t].pc = "idle"
    /\ ~locks[p].unlocked
    /\ Len(locks[p].ex_waiters) < MaxQueue
    /\ Len(locks[p].sh_waiters) < MaxQueue
    /\ locks' = [locks EXCEPT ![p] =
                    FLockAcquire(@, t, mode, FlockOk(p, "EX"), FlockOk(p, "SH"))]
    /\ co' = [co EXCEPT ![t] = [pc |-> "waiting", mode |-> mode]]
    /\ ahead' = [ahead EXCEPT ![t] =
                    IF mode = "SH"
                    THEN UNION {Queued(q, "EX") : q \in Procs}
                    ELSE {}]
    /\ UNCHANGED notLock

\* the coroutine is resumed with the future's result: the lease is held
Wake(t) ==
    LET p == ProcOf(t) IN
    /\ co[t].pc = "waiting"
    /\ t \in locks[p].granted
    /\ ~locks[p].unlocked
    /\ locks' = [locks EXCEPT ![p].granted = @ \ {t}]
    /\ co' = [co EXCEPT ![t].pc = "held"]
    /\ UNCHANGED ahead
    /\ UNCHANGED notLock

\* Lock.__aexit__: FLock.release(mode)
Release(t) ==
    LET p == ProcOf(t) IN
    /\ co[t].pc = "held"
    /\ ~locks[p].unlocked
    /\ locks' = [locks EXCEPT ![p] = FLockRelease(@)]
    /\ co' = [co EXCEPT ![t] = [pc |-> "idle", mode |-> "SH"]]
    /\ ahead' = [u \in Tasks |-> IF u = t THEN {} ELSE ahead[u] \ {t}]
    /\ UNCHANGED notLock

\* mutant: Lock.acquire's except block without the `if p.done()` release
Cancel_NoRelease(t) ==
    LET p == ProcOf(t) IN
    /\ co[t].pc = "waiting"
    /\ ~locks[p].unlocked
    /\ locks' = [locks EXCEPT ![p] =
                    IF t \in @.granted
                    THEN [@ EXCEPT !.granted = @ \ {t}]
                    ELSE CancelFuture(@, t)]
    /\ co' = [co EXCEPT ![t] = [pc |-> "idle", mode |-> "SH"]]
    /\ ahead' = [u \in Tasks |-> IF u = t THEN {} ELSE ahead[u] \ {t}]
    /\ UNCHANGED notLock

\* the task is cancelled while it awaits the future (Lock.acquire's except)
Cancel(t) ==
    LET p == ProcOf(t) IN
    /\ co[t].pc = "waiting"
    /\ ~locks[p].unlocked
    /\ locks' = [locks EXCEPT ![p] =
                    IF t \in @.granted
                    THEN FLockRelease([@ EXCEPT !.granted = @ \ {t}])
                    ELSE CancelFuture(@, t)]
    /\ co' = [co EXCEPT ![t] = [pc |-> "idle", mode |-> "SH"]]
    /\ ahead' = [u \in Tasks |-> IF u = t THEN {} ELSE ahead[u] \ {t}]
    /\ UNCHANGED notLock

\* the callback scheduled by _acquired(): _try_acquire()
TryAcquireSoon(p) ==
    /\ locks[p].try_soon
    /\ ~locks[p].unlocked
    /\ locks' = [locks EXCEPT ![p] =
                    TryAcquire([@ EXCEPT !.try_soon = FALSE],
                               FlockOk(p, "EX"), FlockOk(p, "SH"))]
    /\ UNCHANGED <<co, ahead>>
    /\ UNCHANGED notLock

\* the executor thread: _sync_flock(mode) returns from the blocking flock
SyncFlock(p) ==
    /\ locks[p].state \in {"ACQUIRING_EX", "ACQUIRING_SH"}
    /\ LET mode == IF locks[p].state = "ACQUIRING_EX" THEN "EX" ELSE "SH" IN
       /\ FlockOk(p, mode)
       /\ locks' = [locks EXCEPT ![p] = Acquired(@, mode)]
    /\ UNCHANGED <<co, ahead>>
    /\ UNCHANGED notLock

\* _release() after the flock(LOCK_UN): other processes may have run
AfterUnlock(p) ==
    /\ locks[p].unlocked
    /\ locks' = [locks EXCEPT ![p] =
                    ReleaseRest(@, FlockOk(p, "EX"), FlockOk(p, "SH"))]
    /\ UNCHANGED <<co, ahead>>
    /\ UNCHANGED notLock

InitLockVars ==
    /\ locks = [p \in Procs |-> NewFLock]
    /\ co = [t \in Tasks |-> [pc |-> "idle", mode |-> "SH"]]
    /\ ahead = [t \in Tasks |-> {}]

NextLock ==
    \/ \E t \in Tasks : Acquire(t, "EX")
    \/ \E t \in Tasks : Acquire(t, "SH")
    \/ \E t \in Tasks : Wake(t)
    \/ \E t \in Tasks : Release(t)
    \/ \E t \in Tasks : Cancel(t)
    \/ \E p \in Procs : TryAcquireSoon(p)
    \/ \E p \in Procs : SyncFlock(p)
    \/ \E p \in Procs : AfterUnlock(p)

(***************************************************************************)
(* aiosemaphore.py: AioSemaphore over a multiprocessing BoundedSemaphore.  *)
(* Every `async with AioSemaphore(sema)` builds a fresh wrapper; the       *)
(* wrapper of coroutine t is sm[t] (flags cancel, acquired).  The blocking *)
(* path runs _acquire on the process's executor, which has one thread.     *)
(***************************************************************************)
NewWrapper ==
    [pc |-> "idle", fut |-> "none", cancel |-> FALSE, acquired |-> FALSE,
     saw |-> FALSE]

NewPool == [queue |-> <<>>, run |-> "none"]

InPool(t) == \E i \in 1..Len(pool[ProcOf(t)].queue) : pool[ProcOf(t)].queue[i] = t

\* BoundedSemaphore.release(): raises ValueError above the initial value
SemaRelease(v) == IF v < SemCount THEN v + 1 ELSE v

\* the wrapper once nobody refers to it any more; a wrapper that its
\* coroutine keeps for the next acquire stays as it is
Forget(w, stillQueued) ==
    IF ~reuse /\ w.pc = "idle" /\ ~stillQueued THEN NewWrapper ELSE w

\* AioSemaphore.acquire: sema.acquire(False) succeeds
SemAcquireFast(t) ==
    /\ sm[t].pc = "idle"
    /\ ~InPool(t)
    /\ sem > 0
    /\ sem' = sem - 1
    /\ sm' = [sm EXCEPT ![t].pc = "held"]
    /\ UNCHANGED pool
    /\ UNCHANGED notSem

\* AioSemaphore.acquire: sema.acquire(False) fails, run_in_executor(_acquire)
SemAcquireSlow(t) ==
    /\ sm[t].pc = "idle"
    /\ ~InPool(t)
    /\ sem = 0
    /\ sm' = [sm EXCEPT ![t].pc = "waiting", ![t].fut = "pending"]
    /\ pool' = [pool EXCEPT ![ProcOf(t)].queue = Append(@, t)]
    /\ UNCHANGED sem
    /\ UNCHANGED notSem

\* the executor thread takes the next job and blocks in sema.acquire()
PoolStart(p) ==
    /\ pool[p].run = "none"
    /\ pool[p].queue # <<>>
    /\ pool' = [pool EXCEPT ![p].run = "blocked"]
    /\ UNCHANGED <<sem, sm>>
    /\ UNCHANGED notSem

\* _acquire: self.sema.acquire() returns
PoolGot(p) ==
    /\ pool[p].run = "blocked"
    /\ sem > 0
    /\ sem' = sem - 1
    /\ pool' = [pool EXCEPT ![p].run = "got"]
    /\ UNCHANGED sm
    /\ UNCHANGED notSem

\* _acquire: self.acquired = True
PoolFlag(p) ==
    /\ pool[p].run = "got"
    /\ sm' = [sm EXCEPT ![Head(pool[p].queue)].acquired = TRUE]
    /\ pool' = [pool EXCEPT ![p].run = "flagged"]
    /\ UNCHANGED sem
    /\ UNCHANGED notSem

\* _acquire: if self.cancel: self.release(); then the future gets its result
PoolCheck(p) ==
    /\ pool[p].run = "flagged"
    /\ LET t == Head(pool[p].queue)
           w == sm[t]
           done == [w EXCEPT !.fut = IF @ = "pending" THEN "done" ELSE @]
       IN  /\ sem' = IF w.cancel THEN SemaRelease(sem) ELSE sem
           /\ sm' = [sm EXCEPT ![t] =
                        Forget(IF w.cancel THEN [done EXCEPT !.acquired = FALSE]
                                           ELSE done, FALSE)]
    /\ pool' = [pool EXCEPT ![p] = [queue |-> Tail(@.queue), run |-> "none"]]
    /\ UNCHANGED notSem

\* `await p` returns: the caller holds a permit
SemWake(t) ==
    /\ sm[t].pc = "waiting"
    /\ sm[t].fut = "done"
    /\ sm' = [sm EXCEPT ![t].pc = "held", ![t].fut = "none"]
    /\ UNCHANGED <<sem, pool>>
    /\ UNCHANGED notSem

\* the caller is cancelled in `await p`; a job not yet started is dropped
SemCancel(t) ==
    LET p == ProcOf(t)
        q == pool[p].queue
        running == q # <<>> /\ Head(q) = t /\ pool[p].run # "none"
    IN
    /\ sm[t].pc = "waiting"
    /\ sm' = [sm EXCEPT ![t].pc = "cancelled",
                        ![t].fut = IF @ = "pending" THEN "cancelled" ELSE @]
    /\ pool' = IF running THEN pool
               ELSE [pool EXCEPT ![p].queue = SelectSeq(q, LAMBDA u : u # t)]
    /\ UNCHANGED sem
    /\ UNCHANGED notSem

\* except CancelledError: `if self.acquired`
SemCancelRead(t) ==
    /\ sm[t].pc = "cancelled"
    /\ sm' = [sm EXCEPT ![t].pc = "handling", ![t].saw = sm[t].acquired]
    /\ UNCHANGED <<sem, pool>>
    /\ UNCHANGED notSem

\* except CancelledError: `self.release()` or `self.cancel = True`; raise
SemCancelAct(t) ==
    /\ sm[t].pc = "handling"
    /\ sem' = IF sm[t].saw THEN SemaRelease(sem) ELSE sem
    /\ sm' = [sm EXCEPT ![t] =
                Forget(IF @.saw
                       THEN [@ EXCEPT !.pc = "idle", !.fut = "none", !.saw = FALSE,
                                      !.acquired = FALSE]
                       ELSE [@ EXCEPT !.pc = "idle", !.fut = "none", !.saw = FALSE,
                                      !.cancel = TRUE],
                       InPool(t))]
    /\ UNCHANGED pool
    /\ UNCHANGED notSem

\* AioSemaphore.release (the `async with` exits)
SemRelease(t) ==
    /\ sm[t].pc = "held"
    /\ sem' = SemaRelease(sem)
    /\ sm' = [sm EXCEPT ![t] = Forget([@ EXCEPT !.pc = "idle", !.acquired = FALSE], FALSE)]
    /\ UNCHANGED pool
    /\ UNCHANGED notSem

InitSemVars ==
    /\ sem = SemCount
    /\ sm = [t \in Tasks |-> NewWrapper]
    /\ pool = [p \in Procs |-> NewPool]

NextSema ==
    \/ \E t \in Tasks : SemAcquireFast(t)
    \/ \E t \in Tasks : SemAcquireSlow(t)
    \/ \E p \in Procs : PoolStart(p)
    \/ \E p \in Procs : PoolGot(p)
    \/ \E p \in Procs : PoolFlag(p)
    \/ \E p \in Procs : PoolCheck(p)
    \/ \E t \in Tasks : SemWake(t)
    \/ \E t \in Tasks : SemCancel(t)
    \/ \E t \in Tasks : SemCancelRead(t)
    \/ \E t \in Tasks : SemCancelAct(t)
    \/ \E t \in Tasks : SemRelease(t)

(***************************************************************************)
(* pack_cache.py and UploadPackHandler.run_with_cache, for one fingerprint.*)
(* The entry is the file at `path`; PackCache locks that very file.  A     *)
(* file is a sequence of packets: "D" a data packet, "F" the flush packet  *)
(* "0000", "Z" a hole left by a write past the end.  The FLock of each     *)
(* process is kept as its state, the file its descriptor refers to and the *)
(* number of leases it has handed out (aiolock.py, checked on its own      *)
(* above).                                                                 *)
(***************************************************************************)
Reqs == 1..NumReqs
ReqProc(r) == IF r = NumReqs THEN 2 ELSE 1
Jobs == 1..MaxJobs
Inos == 1..MaxIno

\* what git-upload-pack may write: a pack after a shallow section (which
\* ends with a flush of its own), and the output of a child that dies early
Streams == {<<"F", "D", "F">>, <<"D">>}
Complete(s) == s[Len(s)] = "F"
\* the longest of them
MaxLen == 3

IdleFLock == [state |-> "IDLE", ino |-> 0, lock_holder_num |-> 0]
NoJob == [st |-> "none", owner |-> 0, ino |-> 0, off |-> 0, exited |-> FALSE,
          total |-> 0, stream |-> <<>>]

\* PackCache.exists(): the file is there, not empty, and ends with "0000"
Exists(pth, fs) ==
    /\ pth # 0
    /\ Len(fs[pth]) > 0
    /\ fs[pth][Len(fs[pth])] = "F"

\* the files something still refers to
InUse == {path} \cup {clk[p].ino : p \in Procs} \cup {jobs[j].ino : j \in Jobs}
            \cup {rq[r].ino : r \in Reqs} \cup {ev.ino}

FreeIno == CHOOSE i \in Inos : i \notin InUse /\ \A k \in Inos : k \notin InUse => i <= k

\* open(filename, "a+") or open(filename, "wb"): the file is created if needed
CanOpen == path # 0 \/ \E i \in Inos : i \notin InUse
Opened == IF path # 0 THEN path ELSE FreeIno

\* f.write(data) at offset off (0-based) of a file
WriteAt(c, off, tok) ==
    [i \in 1..(IF Len(c) > off THEN Len(c) ELSE off + 1) |->
        IF i = off + 1 THEN tok ELSE IF i <= Len(c) THEN c[i] ELSE "Z"]

\* a file nothing refers to any more is gone
Gc(fs) == [i \in Inos |-> IF i \in InUse' THEN fs[i] ELSE <<>>]

\* the requests of process p whose future waits in a deque of its FLock
WaitEx(p) == {r \in Reqs : ReqProc(r) = p /\ rq[r].pc = "wl"}
WaitSh(p) == {r \in Reqs : ReqProc(r) = p /\ rq[r].pc \in {"rl1", "rl2"}}

\* flock(fd, mode) of process p succeeds: no conflicting flock on that file
OsOk(p, mode) ==
    \A q \in Procs \ {p} :
        (clk[q].ino = clk[p].ino /\ clk[q].state \in {"ACQUIRED_EX", "ACQUIRED_SH"})
            => (mode = "SH" /\ clk[q].state = "ACQUIRED_SH")

\* FLock.release(): the last lease unlocks and closes the file
RelLease(c) ==
    IF c.lock_holder_num <= 1 THEN IdleFLock
    ELSE [c EXCEPT !.lock_holder_num = @ - 1]

\* _try_acquire() in state IDLE: open the path and ask for the flock,
\* exclusive waiters first
COpen(p) ==
    /\ clk[p].state = "IDLE"
    /\ WaitEx(p) \cup WaitSh(p) # {}
    /\ CanOpen
    /\ clk' = [clk EXCEPT ![p] =
                [state |-> IF WaitEx(p) # {} THEN "ACQUIRING_EX" ELSE "ACQUIRING_SH",
                 ino |-> Opened, lock_holder_num |-> 0]]
    /\ path' = Opened
    /\ files' = IF path = 0 THEN [files EXCEPT ![Opened] = <<>>] ELSE files
    /\ UNCHANGED <<rq, jobs, ev, hist>>
    /\ UNCHANGED notCache

\* the flock is granted (at once, or later in _sync_flock)
CGrant(p) ==
    /\ clk[p].state \in {"ACQUIRING_EX", "ACQUIRING_SH"}
    /\ LET mode == IF clk[p].state = "ACQUIRING_EX" THEN "EX" ELSE "SH" IN
       /\ OsOk(p, mode)
       /\ clk' = [clk EXCEPT ![p].state = IF mode = "EX" THEN "ACQUIRED_EX"
                                                          ELSE "ACQUIRED_SH"]
    /\ UNCHANGED <<path, rq, jobs, ev, hist>>
    /\ files' = Gc(files)
    /\ UNCHANGED notCache

\* _try_acquire() finds the flock held for waiters that are gone: _release()
CDrop(p) ==
    /\ clk[p].lock_holder_num = 0
    /\ \/ clk[p].state = "ACQUIRED_EX" /\ WaitEx(p) = {}
       \/ clk[p].state = "ACQUIRED_SH" /\ (WaitSh(p) = {} \/ WaitEx(p) # {})
    /\ clk' = [clk EXCEPT ![p] = IdleFLock]
    /\ UNCHANGED <<path, rq, jobs, ev, hist>>
    /\ files' = Gc(files)
    /\ UNCHANGED notCache

\* a waiting request can be handed a lease by its process's FLock
CanTake(r, mode) ==
    LET c == clk[ReqProc(r)] IN
    IF mode = "EX"
    THEN c.state = "ACQUIRED_EX" /\ c.lock_holder_num = 0
    ELSE c.state = "ACQUIRED_SH" /\ WaitEx(ReqProc(r)) = {}

NewReq == [pc |-> "idle", ino |-> 0]

\* a request arrives: run_with_cache asks for the read lock
RStart(r) ==
    /\ rq[r].pc = "idle"
    /\ rq' = [rq EXCEPT ![r].pc = "rl1"]
    /\ UNCHANGED <<path, clk, jobs, ev, hist>>
    /\ files' = Gc(files)
    /\ UNCHANGED notCache

\* a lease taken and given back at once, before the next one is asked for
Bounce(c) == IF c.lock_holder_num = 0 THEN IdleFLock ELSE c

\* first block: under the read lock, exists() decides between send_pack
\* and leaving the block to ask for the write lock
RRead1(r) ==
    /\ rq[r].pc = "rl1"
    /\ CanTake(r, "SH")
    /\ IF Exists(path, files)
       THEN /\ rq' = [rq EXCEPT ![r] = [pc |-> "serve1", ino |-> path]]
            /\ clk' = [clk EXCEPT ![ReqProc(r)].lock_holder_num = @ + 1]
       ELSE /\ rq' = [rq EXCEPT ![r].pc = "wl"]
            /\ clk' = [clk EXCEPT ![ReqProc(r)] = Bounce(@)]
    /\ UNCHANGED <<path, jobs, ev, hist>>
    /\ files' = Gc(files)
    /\ UNCHANGED notCache

\* second block: under the write lock, exists() is checked again
RWrite(r) ==
    /\ rq[r].pc = "wl"
    /\ CanTake(r, "EX")
    /\ IF Exists(path, files)
       THEN /\ rq' = [rq EXCEPT ![r].pc = "rl2"]
            /\ clk' = [clk EXCEPT ![ReqProc(r)] = IdleFLock]
       ELSE /\ rq' = [rq EXCEPT ![r].pc = "exec"]
            /\ clk' = [clk EXCEPT ![ReqProc(r)].lock_holder_num = 1]
    /\ UNCHANGED <<path, jobs, ev, hist>>
    /\ files' = Gc(files)
    /\ UNCHANGED notCache

\* third block: send_pack if the entry exists, else "Run with cache failed"
RRead2(r) ==
    /\ rq[r].pc = "rl2"
    /\ CanTake(r, "SH")
    /\ IF Exists(path, files)
       THEN /\ rq' = [rq EXCEPT ![r] = [pc |-> "serve2", ino |-> path]]
            /\ clk' = [clk EXCEPT ![ReqProc(r)].lock_holder_num = @ + 1]
       ELSE /\ rq' = [rq EXCEPT ![r] = NewReq]
            /\ clk' = [clk EXCEPT ![ReqProc(r)] = Bounce(@)]
    /\ UNCHANGED <<path, jobs, ev, hist>>
    /\ files' = Gc(files)
    /\ UNCHANGED notCache

\* send_pack has written the whole file to the client; the lease is released
RServeDone(r) ==
    /\ rq[r].pc \in {"serve1", "serve2"}
    /\ rq' = [rq EXCEPT ![r] = NewReq]
    /\ clk' = [clk EXCEPT ![ReqProc(r)] = RelLease(@)]
    /\ UNCHANGED <<path, jobs, ev, hist>>
    /\ files' = Gc(files)
    /\ UNCHANGED notCache

\* execute(): the mirror lacks the wanted commit, the child answers ERR,
\* the mirror is updated and the loop tries again
RAttemptErr(r) ==
    /\ rq[r].pc = "exec"
    /\ hist.stale
    /\ hist.started < MaxSpawn
    /\ hist' = [hist EXCEPT !.stale = FALSE, !.started = @ + 1]
    /\ UNCHANGED <<path, clk, rq, jobs, ev>>
    /\ files' = Gc(files)
    /\ UNCHANGED notCache

\* execute() ends with a child whose first chunk is an ERR packet (the
\* wanted commit is unknown to upstream too): doUploadPack forwards it to
\* the client and returns before cache_pack
RExecErr(r) ==
    /\ rq[r].pc = "exec"
    /\ hist.started < MaxSpawn
    /\ rq' = [rq EXCEPT ![r].pc = "failed"]
    /\ hist' = [hist EXCEPT !.started = @ + 1]
    /\ UNCHANGED <<path, clk, jobs, ev>>
    /\ files' = Gc(files)
    /\ UNCHANGED notCache

\* execute() -> doUploadPack: the child is started, its first chunk is no
\* error, cache_pack opens the entry with "wb" and runs under a shield
RSpawn(r, j, s) ==
    /\ rq[r].pc = "exec"
    /\ ~hist.stale
    /\ hist.started < MaxSpawn
    /\ jobs[j].st = "none"
    /\ \A k \in Jobs : jobs[k].st = "none" => j <= k
    /\ CanOpen
    /\ path' = Opened
    /\ files' = [files EXCEPT ![Opened] = <<>>]
    /\ jobs' = [jobs EXCEPT ![j] =
                    [st |-> "run", owner |-> r, ino |-> Opened, off |-> 0,
                     exited |-> FALSE, total |-> 0, stream |-> s]]
    /\ rq' = [rq EXCEPT ![r].pc = "populate"]
    /\ hist' = [hist EXCEPT !.started = @ + 1]
    /\ UNCHANGED <<clk, ev>>
    /\ UNCHANGED notCache

\* the child exits by itself, all its output written to the pipe
ChildExit(j) ==
    /\ jobs[j].st = "run"
    /\ ~jobs[j].exited
    /\ jobs' = [jobs EXCEPT ![j].exited = TRUE, ![j].total = Len(jobs[j].stream)]
    /\ UNCHANGED <<path, clk, rq, ev, hist>>
    /\ files' = Gc(files)
    /\ UNCHANGED notCache

\* ensure_proc_terminated in doUploadPack's finally: the child did not exit
\* within the timeout and is terminated, whatever it had written so far
\* (at least the first chunk, which doUploadPack has read)
ChildTerm(j, n) ==
    /\ jobs[j].st = "run"
    /\ ~jobs[j].exited
    /\ jobs[j].owner # 0
    /\ rq[jobs[j].owner].pc = "terminate"
    /\ n >= 1
    /\ n >= jobs[j].off
    /\ n <= Len(jobs[j].stream)
    /\ jobs' = [jobs EXCEPT ![j].exited = TRUE, ![j].total = n]
    /\ UNCHANGED <<path, clk, rq, ev, hist>>
    /\ files' = Gc(files)
    /\ UNCHANGED notCache

\* cache_pack: the parser yields the next packet and it is written
PopWrite(j) ==
    /\ jobs[j].st = "run"
    /\ jobs[j].off < (IF jobs[j].exited THEN jobs[j].total ELSE Len(jobs[j].stream))
    /\ files' = [files EXCEPT ![jobs[j].ino] =
                    WriteAt(@, jobs[j].off, jobs[j].stream[jobs[j].off + 1])]
    /\ jobs' = [jobs EXCEPT ![j].off = @ + 1]
    /\ UNCHANGED <<path, clk, rq, ev, hist>>
    /\ UNCHANGED notCache

\* the parser's verdict at the end of the child's output
EndsWithFlush(jb) == jb.total > 0 /\ jb.stream[jb.total] = "F"

\* cache_pack reaches the end of the child's output: without a final flush
\* the parser raises and the entry's path is unlinked; the file is closed
PopEnd(j) ==
    /\ jobs[j].st = "run"
    /\ jobs[j].exited
    /\ jobs[j].off = jobs[j].total
    /\ path' = IF EndsWithFlush(jobs[j]) THEN path ELSE 0
    /\ hist' = [hist EXCEPT !.spoiled = @ \/ ~EndsWithFlush(jobs[j])]
    /\ jobs' = [jobs EXCEPT ![j] = NoJob]
    /\ rq' = [r \in Reqs |->
                IF r = jobs[j].owner /\ rq[r].pc = "populate"
                THEN [rq[r] EXCEPT !.pc = "finish"] ELSE rq[r]]
    /\ UNCHANGED <<clk, ev>>
    /\ files' = Gc(files)
    /\ UNCHANGED notCache

\* run_with_cache line 409 after execute() returned: clean() is called
\* (it may hand clean_task to the executor) and create_task() raises on its
\* result, so the write lock's block is left and the request ends there
RFinish(r, queue) ==
    /\ rq[r].pc \in {"finish", "failed"}
    /\ ev' = IF queue /\ ev.pc = "idle" THEN [ev EXCEPT !.pc = "queued"] ELSE ev
    /\ clk' = [clk EXCEPT ![ReqProc(r)] = RelLease(@)]
    /\ rq' = [rq EXCEPT ![r] = NewReq]
    /\ UNCHANGED <<path, jobs, hist>>
    /\ files' = Gc(files)
    /\ UNCHANGED notCache

\* the client goes away: the request's task is cancelled where it waits.
\* In the shielded cache_pack it goes on to doUploadPack's finally and
\* waits there for the child; anywhere else its lease is released.
RCancel(r) ==
    /\ rq[r].pc \in {"rl1", "wl", "rl2", "serve1", "serve2", "exec", "populate"}
    /\ rq' = [rq EXCEPT ![r] = IF @.pc = "populate"
                                THEN [@ EXCEPT !.pc = "terminate"] ELSE NewReq]
    /\ clk' = IF rq[r].pc \in {"serve1", "serve2", "exec"}
              THEN [clk EXCEPT ![ReqProc(r)] = RelLease(@)] ELSE clk
    /\ UNCHANGED <<path, jobs, ev, hist>>
    /\ files' = Gc(files)
    /\ UNCHANGED notCache

\* ensure_proc_terminated returns (the child has a return code): the
\* cancellation leaves run_with_cache and the write lock is released
RTermDone(r) ==
    /\ rq[r].pc = "terminate"
    /\ \A j \in Jobs : jobs[j].owner = r => jobs[j].exited
    /\ jobs' = [j \in Jobs |-> IF jobs[j].owner = r
                               THEN [jobs[j] EXCEPT !.owner = 0] ELSE jobs[j]]
    /\ clk' = [clk EXCEPT ![ReqProc(r)] = RelLease(@)]
    /\ rq' = [rq EXCEPT ![r] = NewReq]
    /\ UNCHANGED <<path, ev, hist>>
    /\ files' = Gc(files)
    /\ UNCHANGED notCache

\* _clean_task in the cleaner's thread: the entry is picked for deletion (or
\* not) and FileLock opens it and blocks in flock(LOCK_EX)
EvScan(pick) ==
    /\ ev.pc = "queued"
    /\ ev' = IF pick /\ path # 0 THEN [pc |-> "blocked", ino |-> path]
             ELSE [pc |-> "idle", ino |-> 0]
    /\ UNCHANGED <<path, clk, rq, jobs, hist>>
    /\ files' = Gc(files)
    /\ UNCHANGED notCache

\* the cleaner gets the flock of the file it opened, unlinks the entry's
\* path and unlocks
EvDelete ==
    /\ ev.pc = "blocked"
    /\ \A p \in Procs :
          ~(clk[p].ino = ev.ino /\ clk[p].state \in {"ACQUIRED_EX", "ACQUIRED_SH"})
    /\ path' = 0
    /\ hist' = [hist EXCEPT !.spoiled = TRUE]
    /\ ev' = [pc |-> "idle", ino |-> 0]
    /\ UNCHANGED <<clk, rq, jobs>>
    /\ files' = Gc(files)
    /\ UNCHANGED notCache

InitCacheVars ==
    /\ path = 0
    /\ files = [i \in Inos |-> <<>>]
    /\ clk = [p \in Procs |-> IdleFLock]
    /\ rq = [r \in Reqs |-> NewReq]
    /\ jobs = [j \in Jobs |-> NoJob]
    /\ ev = [pc |-> "idle", ino |-> 0]
    /\ \E b \in BOOLEAN : hist = [stale |-> b, started |-> 0, spoiled |-> FALSE]

NextCache ==
    \/ \E r \in Reqs : RStart(r)
    \/ \E p \in Procs : COpen(p)
    \/ \E p \in Procs : CGrant(p)
    \/ \E p \in Procs : CDrop(p)
    \/ \E r \in Reqs : RRead1(r)
    \/ \E r \in Reqs : RWrite(r)
    \/ \E r \in Reqs : RRead2(r)
    \/ \E r \in Reqs : RServeDone(r)
    \/ \E r \in Reqs : RAttemptErr(r)
    \/ \E r \in Reqs : RExecErr(r)
    \/ \E r \in Reqs, j \in Jobs, s \in Streams : RSpawn(r, j, s)
    \/ \E j \in Jobs : ChildExit(j)
    \/ \E j \in Jobs, n \in 0..MaxLen : ChildTerm(j, n)
    \/ \E j \in Jobs : PopWrite(j)
    \/ \E j \in Jobs : PopEnd(j)
    \/ \E r \in Reqs, q \in BOOLEAN : RFinish(r, q)
    \/ \E r \in Reqs : RCancel(r)
    \/ \E r \in Reqs : RTermDone(r)
    \/ \E b \in BOOLEAN : EvScan(b)
    \/ EvDelete

(***************************************************************************)
(* execute() and RepoCache for one mirror.  The mirror's lock is the file  *)
(* <directory>.lock, taken shared by uploadPack and exclusive by update and*)
(* force_update; its leases are granted as aiolock grants them (checked on *)
(* its own above).  Both RepoCache classes of the repository are modelled: *)
(* impl "upload_pack" is upload_pack.py's, "repo_cache" is repo_cache.py's;*)
(* the requests that run at the same time all use the same one.            *)
(* A request is cancelled at most once (its client disconnects).  A        *)
(* request may want a commit that neither the mirror nor upstream has      *)
(* (unk): every git-upload-pack run for it answers "not our ref".          *)
(* The directory's mtime only serves the test `prev_mtime == mtime()`: a   *)
(* request's field `same` tells whether that test would hold now, i.e.     *)
(* whether the mtime it saved is the directory's current one.  Every       *)
(* change of the directory (rm -rf, clone, utime) gives it an mtime that   *)
(* nobody has saved.  A request's field `out` counts the git-upload-pack   *)
(* runs whose output flush_to_writer has written to its client, and the   *)
(* mirror's field `fetched` tells that update() has started a fetch since  *)
(* the directory got its current mtime, while another request had saved    *)
(* that mtime too.                                                         *)
(***************************************************************************)
NewMReq == [pc |-> "idle", impl |-> "upload_pack", step |-> 0, same |-> FALSE,
            tries |-> 0, nor |-> FALSE, unk |-> FALSE, ff |-> FALSE, out |-> 0]

MHoldsEx(r) == mq[r].pc \in {"clone", "fetch", "git_wait"}
MHoldsSh(r) == mq[r].pc \in {"up_run", "up_term"}

\* the directory gets a new mtime: no saved mtime equals it
Touched(q) == [r \in Reqs |-> [q[r] EXCEPT !.same = FALSE]]

\* save_mtime(): prev_mtime = mtime(), which is None without a directory
\* (and None never equals the mtime of a directory)
SaveMtime(m) == [m EXCEPT !.same = mir.exists]

\* execute() builds its RepoCache (upload_pack.py's) and calls uploadPack
MStart(r, impl, unk) ==
    /\ mq[r].pc = "idle"
    /\ unk => impl = "upload_pack"
    /\ \A u \in Reqs : mq[u].pc # "idle" => mq[u].impl = impl
    /\ mq' = [mq EXCEPT ![r] = [NewMReq EXCEPT !.pc = "up_wait", !.impl = impl,
                                               !.unk = unk]]
    /\ UNCHANGED <<mir, orph>>
    /\ UNCHANGED notMirror

\* mutant: doUploadPack forwards the child's error on every attempt
AfterError_AlwaysForward(m, ran) ==
    IF m.step = 3
    THEN [NewMReq EXCEPT !.pc = IF ran THEN "sent_err" ELSE "sent_none",
                         !.unk = m.unk,
                         !.out = IF ran THEN m.out + 1 ELSE m.out]
    ELSE IF m.impl = "repo_cache"
         THEN [SaveMtime(m) EXCEPT !.pc = "upd_wait",
                                   !.out = IF ran THEN m.out + 1 ELSE m.out]
    ELSE [m EXCEPT !.pc = "upd_wait", !.out = IF ran THEN m.out + 1 ELSE m.out]

\* where execute() goes after an uploadPack that reported an error; the
\* last one (forward_error=True) has written the child's error to the
\* client when a child was run (ran), and nothing otherwise
AfterError(m, ran) ==
    IF m.step = 3
    THEN [NewMReq EXCEPT !.pc = IF ran THEN "sent_err" ELSE "sent_none",
                         !.unk = m.unk,
                         !.out = IF ran THEN m.out + 1 ELSE m.out]
    ELSE IF m.impl = "repo_cache" THEN [SaveMtime(m) EXCEPT !.pc = "upd_wait"]
    ELSE [m EXCEPT !.pc = "upd_wait"]

\* uploadPack: the read lock is granted, save_mtime; with a mirror the
\* git-upload-pack child is started, without one True is returned
MUpload(r) ==
    /\ mq[r].pc = "up_wait"
    /\ \A u \in Reqs \ {r} : ~MHoldsEx(u)
    /\ LET m == [IF mq[r].impl = "upload_pack" THEN SaveMtime(mq[r]) ELSE mq[r]
                    EXCEPT !.ff = FALSE] IN
       mq' = [mq EXCEPT ![r] = IF mir.exists THEN [m EXCEPT !.pc = "up_run"]
                                ELSE AfterError(m, FALSE)]
    /\ UNCHANGED <<mir, orph>>
    /\ UNCHANGED notMirror

\* doUploadPack returns: the child has exited, the read lock is released;
\* err is its first chunk being an ERR packet, nor its being "not our ref";
\* without an error the output was written to the client and execute()
\* returns
MUploadExit(r, err, nor) ==
    /\ mq[r].pc = "up_run"
    /\ nor => err
    /\ mq[r].unk => err /\ nor
    /\ mq' = [mq EXCEPT ![r] = IF err THEN AfterError([@ EXCEPT !.nor = nor], TRUE)
                               ELSE [NewMReq EXCEPT !.pc = "sent_ok",
                                                    !.out = mq[r].out + 1]]
    /\ UNCHANGED <<mir, orph>>
    /\ UNCHANGED notMirror

\* where execute() goes after update() or force_update()
AfterUpdate(m) ==
    [m EXCEPT !.pc = "up_wait", !.tries = 0, !.nor = FALSE, !.ff = FALSE,
              !.step = IF m.step = 1 /\ m.nor THEN 3 ELSE m.step + 1]

\* update() / force_update(): the write lock is granted; clone (after
\* rm -rf), fetch, or nothing when another request has fetched meanwhile
MUpdate(r) ==
    /\ mq[r].pc = "upd_wait"
    /\ \A u \in Reqs \ {r} : ~MHoldsEx(u) /\ ~MHoldsSh(u)
    /\ IF mq[r].step = 2 \/ ~mir.exists
       THEN /\ mq' = [Touched(mq) EXCEPT ![r].pc = "clone"]
            /\ mir' = [exists |-> FALSE, fetched |-> FALSE]
       ELSE /\ mq' = [mq EXCEPT ![r] =
                        IF @.same THEN [@ EXCEPT !.pc = "fetch", !.same = FALSE]
                        ELSE AfterUpdate(@)]
            /\ mir' = IF mq[r].same /\ \E u \in Reqs \ {r} : mq[u].same
                      THEN [mir EXCEPT !.fetched = TRUE] ELSE mir
    /\ UNCHANGED orph
    /\ UNCHANGED notMirror

\* run_git returns in clone(): on success the fetch follows, on failure the
\* clone is tried again, and after the last attempt HTTPInternalServerError
\* (500, reason = the child's stderr) is raised
MCloneExit(r, ok) ==
    /\ mq[r].pc = "clone"
    /\ IF ok
       THEN /\ mir' = [exists |-> TRUE, fetched |-> FALSE]
            /\ mq' = [Touched(mq) EXCEPT ![r].pc = "fetch", ![r].tries = 0]
       ELSE /\ mir' = mir
            /\ mq' = [mq EXCEPT ![r] = IF @.tries + 1 < BackoffTries
                                       THEN [@ EXCEPT !.tries = @ + 1]
                                       ELSE [NewMReq EXCEPT !.pc = "http_500"]]
    /\ UNCHANGED orph
    /\ UNCHANGED notMirror

\* run_git returns in fetch(): success or last attempt end the loop, then
\* utime(), save_mtime() and the write lock is released; ff records, until
\* the next uploadPack starts, that the loop ended with every attempt failed
MFetchExit(r, ok) ==
    /\ mq[r].pc = "fetch"
    /\ IF ok \/ mq[r].tries + 1 >= BackoffTries
       THEN /\ mir' = [mir EXCEPT !.fetched = FALSE]
            /\ mq' = [Touched(mq) EXCEPT ![r] = [AfterUpdate(@) EXCEPT !.ff = ~ok]]
       ELSE /\ mir' = mir
            /\ mq' = [mq EXCEPT ![r].tries = @ + 1]
    /\ UNCHANGED orph
    /\ UNCHANGED notMirror

\* the request's task is cancelled.  In doUploadPack the finally waits for
\* the child (and terminates it).  In run_git, upload_pack.py lets the
\* CancelledError out of communicate(): the lock is released and the child
\* runs on; repo_cache.py awaits communicate() again before it re-raises.
MCancel(r) ==
    /\ mq[r].pc \in {"up_wait", "up_run", "upd_wait", "clone", "fetch"}
    /\ mq[r].pc \in {"clone", "fetch"} /\ mq[r].impl = "upload_pack"
            => orph < MaxOrphans
    /\ mq' = [mq EXCEPT ![r] =
                IF @.pc = "up_run" THEN [@ EXCEPT !.pc = "up_term"]
                ELSE IF @.pc \in {"clone", "fetch"} /\ @.impl = "repo_cache"
                     THEN [@ EXCEPT !.pc = "git_wait"]
                     ELSE NewMReq]
    /\ orph' = IF mq[r].pc \in {"clone", "fetch"} /\ mq[r].impl = "upload_pack"
               THEN orph + 1 ELSE orph
    /\ UNCHANGED mir
    /\ UNCHANGED notMirror

\* the child of a cancelled request exits: ensure_proc_terminated
\* (doUploadPack) or the second communicate() (repo_cache.py) returns, the
\* CancelledError goes on and the lease is released
MCancelDone(r) ==
    /\ mq[r].pc \in {"up_term", "git_wait"}
    /\ mq' = [mq EXCEPT ![r] = NewMReq]
    /\ UNCHANGED <<mir, orph>>
    /\ UNCHANGED notMirror

\* execute() returns after its last uploadPack, or the exception of clone()
\* has become the 500 response
MEnd(r) ==
    /\ mq[r].pc \in {"sent_ok", "sent_err", "sent_none", "http_500"}
    /\ mq' = [mq EXCEPT ![r] = NewMReq]
    /\ UNCHANGED <<mir, orph>>
    /\ UNCHANGED notMirror

\* a child that was left behind exits
MOrphanExit ==
    /\ orph > 0
    /\ orph' = orph - 1
    /\ UNCHANGED <<mir, mq>>
    /\ UNCHANGED notMirror

InitMirrorVars ==
    /\ mir = [exists |-> FALSE, fetched |-> FALSE]
    /\ mq = [r \in Reqs |-> NewMReq]
    /\ orph = 0

NextMirror ==
    \/ \E r \in Reqs, i \in {"upload_pack", "repo_cache"}, u \in BOOLEAN : MStart(r, i, u)
    \/ \E r \in Reqs : MUpload(r)
    \/ \E r \in Reqs, e, n \in BOOLEAN : MUploadExit(r, e, n)
    \/ \E r \in Reqs : MUpdate(r)
    \/ \E r \in Reqs, ok \in BOOLEAN : MCloneExit(r, ok)
    \/ \E r \in Reqs, ok \in BOOLEAN : MFetchExit(r, ok)
    \/ \E r \in Reqs : MCancel(r)
    \/ \E r \in Reqs : MCancelDone(r)
    \/ \E r \in Reqs : MEnd(r)
    \/ MOrphanExit

(***************************************************************************)
(* uploadPack() and doUploadPack() under the semaphore: `async with         *)
(* self.sema` around the git-upload-pack child.  The acquisition itself is *)
(* taken as one step here (aiosemaphore.py is modelled on its own above);  *)
(* the mirror exists and its read lock, which is shared, is granted.       *)
(*   pc "sem"   : waiting for the permit                                   *)
(*      "body"  : the child runs, doUploadPack is in its try block         *)
(*      "fin"   : the try block is over, the finally awaits the child      *)
(*      "fin_c" : the same after a cancellation raised in the try block    *)
(* A request is cancelled at most once (its client disconnects).           *)
(***************************************************************************)
NewUp == [pc |-> "idle", child |-> "none"]

\* uploadPack: the read lock is granted, the mirror exists, `async with sema`
UpStart(r) ==
    /\ up[r].pc = "idle"
    /\ up' = [up EXCEPT ![r].pc = "sem"]
    /\ UNCHANGED <<sem, stray>>
    /\ UNCHANGED notUp

\* the permit is acquired and doUploadPack starts git-upload-pack
UpAcquire(r) ==
    /\ up[r].pc = "sem"
    /\ sem > 0
    /\ sem' = sem - 1
    /\ up' = [up EXCEPT ![r] = [pc |-> "body", child |-> "run"]]
    /\ UNCHANGED stray
    /\ UNCHANGED notUp

\* the child ends (by itself, or terminated by ensure_proc_terminated) and
\* its return code is set
UpChildExit(r) ==
    /\ up[r].child = "run"
    /\ up' = [up EXCEPT ![r].child = "dead"]
    /\ UNCHANGED <<sem, stray>>
    /\ UNCHANGED notUp

\* the try block ends: the output was forwarded up to its end, or the
\* first chunk was an error and `return error` was reached, or an
\* exception was logged; the finally awaits ensure_proc_terminated
UpBodyEnd(r) ==
    /\ up[r].pc = "body"
    /\ up' = [up EXCEPT ![r].pc = "fin"]
    /\ UNCHANGED <<sem, stray>>
    /\ UNCHANGED notUp

\* ensure_proc_terminated returns (returncode is set), doUploadPack ends
\* and the `async with` releases the permit
UpDone(r) ==
    /\ up[r].pc \in {"fin", "fin_c"}
    /\ up[r].child = "dead"
    /\ sem' = SemaRelease(sem)
    /\ up' = [up EXCEPT ![r] = NewUp]
    /\ UNCHANGED stray
    /\ UNCHANGED notUp

\* the request's task is cancelled where it awaits.  In the try block the
\* CancelledError is re-raised and the finally waits for the child.  In the
\* finally's own await it leaves ensure_proc_terminated and doUploadPack at
\* once, and the `async with` releases the permit.
UpCancel(r) ==
    /\ up[r].pc \in {"sem", "body", "fin"}
    /\ (up[r].pc = "fin" /\ up[r].child = "run") => stray < MaxOrphans
    /\ up' = [up EXCEPT ![r] = IF @.pc = "body" THEN [@ EXCEPT !.pc = "fin_c"]
                                ELSE NewUp]
    /\ sem' = IF up[r].pc = "fin" THEN SemaRelease(sem) ELSE sem
    /\ stray' = IF up[r].pc = "fin" /\ up[r].child = "run" THEN stray + 1 ELSE stray
    /\ UNCHANGED notUp

\* a child that was left behind ends
UpStrayExit ==
    /\ stray > 0
    /\ stray' = stray - 1
    /\ UNCHANGED <<sem, up>>
    /\ UNCHANGED notUp

InitUpVars ==
    /\ up = [r \in Reqs |-> NewUp]
    /\ stray = 0

NextUp ==
    \/ \E r \in Reqs : UpStart(r)
    \/ \E r \in Reqs : UpAcquire(r)
    \/ \E r \in Reqs : UpChildExit(r)
    \/ \E r \in Reqs : UpBodyEnd(r)
    \/ \E r \in Reqs : UpDone(r)
    \/ \E r \in Reqs : UpCancel(r)
    \/ UpStrayExit

(***************************************************************************)
(* UploadPackInputParser (upload_pack_input_parser.py) and                 *)
(* UploadPackHandler.run.  A request body is a sequence of pkt-lines:      *)
(*   want  : "want <id> <caps>\n"  (caps: pairs of name and value)         *)
(*   have  : "have <id>\n"         done : "done\n"                         *)
(*   deepen: "deepen 1\n"          flush: "0000"                           *)
(*   bad   : bytes that are no pkt-line (the length is not hexadecimal)    *)
(*   bin   : the same, and the bytes are not valid UTF-8                   *)
(* sha256 is taken as injective, so that a fingerprint is the byte string  *)
(* that was hashed: the update() arguments one after the other.            *)
(***************************************************************************)
GIT_CAPS ==
    {"ofs-delta", "side-band-64k", "multi_ack", "multi_ack_detailed", "no-done",
     "thin-pack", "side-band", "agent", "symref", "shallow", "deepen-since",
     "deepen-not", "deepen-relative", "no-progress", "include-tag",
     "report-status", "delete-refs", "quiet", "atomic", "push-options",
     "allow-tip-sha1-in-want", "allow-reachable-sha1-in-want", "push-cert",
     "filter"}

Pkt(k, id, caps) == [k |-> k, id |-> id, caps |-> caps]

\* the capability lists a first want line carries in the model
CapLists ==
    {{},
     {<<"side-band-64k", "">>, <<"agent", "git/1">>},
     {<<"side-band-64k", "">>, <<"agent", "git/2">>},
     {<<"side-band", "">>, <<"filter", "">>, <<"x-new", "">>}}

Lines ==
    {Pkt("want", "A", c) : c \in CapLists}
    \cup {Pkt("want", "B", {}), Pkt("want", "B", {<<"side-band-64k", "">>, <<"agent", "git/1">>})}
    \cup {Pkt("have", "A", {}), Pkt("done", "", {}), Pkt("deepen", "", {}),
          Pkt("flush", "", {}), Pkt("bad", "", {}), Pkt("bin", "", {})}

RECURSIVE SeqsUpTo(_, _)
SeqsUpTo(S, n) ==
    IF n = 0 THEN {<<>>}
    ELSE LET shorter == SeqsUpTo(S, n - 1) IN
         shorter \cup {Append(q, x) : q \in {w \in shorter : Len(w) = n - 1}, x \in S}

Inputs == SeqsUpTo(Lines, MaxLines)

\* the byte strings that get sorted, in bytewise order
ByteOrder == <<"A", "B", "agent", "deepen 1", "filter", "side-band", "side-band-64k">>
Rank(x) == CHOOSE i \in DOMAIN ByteOrder : ByteOrder[i] = x

\* sorted(set)
RECURSIVE Sorted(_)
Sorted(S) ==
    IF S = {} THEN <<>>
    ELSE LET m == CHOOSE x \in S : \A y \in S : Rank(x) <= Rank(y) IN
         <<m>> \o Sorted(S \ {m})

\* sorted(list)
RECURSIVE SortedList(_)
SortedList(q) ==
    IF q = <<>> THEN <<>>
    ELSE LET i == CHOOSE i \in DOMAIN q : \A j \in DOMAIN q : Rank(q[i]) <= Rank(q[j]) IN
         <<q[i]>> \o SortedList(SubSeq(q, 1, i - 1) \o SubSeq(q, i + 1, Len(q)))

\* the parser's fields as __init__ sets them before parsing; `raises` tells
\* that the constructor did not return but raised
NewParser ==
    [wants |-> {}, haves |-> {}, caps |-> {}, depth |-> FALSE, depth_lines |-> <<>>,
     done |-> FALSE, parse_error |-> TRUE, filter |-> FALSE, hash |-> "",
     raises |-> FALSE]

\* PacketLineParser.__next__ raises on these bytes
Malformed(pkt) == pkt.k \in {"bad", "bin"}

\* parse_header: the first pkt-line; a body without one ends the iterator
\* (StopIteration), which __init__ catches like any other error
parse_header(st, pkts) ==
    IF pkts = <<>> \/ Malformed(pkts[1]) THEN [st EXCEPT !.parse_error = TRUE]
    ELSE IF pkts[1].k = "flush" THEN [st EXCEPT !.parse_error = FALSE]
    ELSE IF pkts[1].k # "want" THEN [st EXCEPT !.parse_error = TRUE]
    ELSE [st EXCEPT !.parse_error = FALSE,
                    !.wants = {pkts[1].id},
                    !.caps = {c \in pkts[1].caps : c[1] \in GIT_CAPS}]

\* parse_lists: the other pkt-lines
RECURSIVE parse_lists(_, _)
parse_lists(st, pkts) ==
    IF pkts = <<>> \/ st.parse_error THEN st
    ELSE LET pkt == Head(pkts)
             nxt == IF Malformed(pkt) THEN [st EXCEPT !.parse_error = TRUE]
                    ELSE IF pkt.k = "want" THEN [st EXCEPT !.wants = @ \cup {pkt.id}]
                    ELSE IF pkt.k = "done" THEN [st EXCEPT !.done = TRUE]
                    ELSE IF pkt.k = "have" THEN [st EXCEPT !.haves = @ \cup {pkt.id}]
                    ELSE IF pkt.k = "deepen"
                         THEN [st EXCEPT !.depth = TRUE,
                                         !.depth_lines = Append(@, "deepen 1")]
                    ELSE st
         IN parse_lists(nxt, Tail(pkts))

CapNames(st) == {c[1] : c \in st.caps}

\* what a hash has been fed by update() calls with these arguments
RECURSIVE Updates(_)
Updates(q) == IF q = <<>> THEN "" ELSE Head(q) \o Updates(Tail(q))

\* mutant: the values of the capabilities are hashed with their names
Fingerprint_WithCapValues(st) ==
    Updates(<<"caps">> \o Sorted(CapNames(st)) \o <<"haves">> \o Sorted(st.haves)
        \o <<"wants">> \o Sorted(st.wants) \o SortedList(st.depth_lines)
        \o (IF st.done THEN <<"done">> ELSE <<>>)
        \o (IF \E c \in st.caps : c[1] = "agent"
            THEN <<(CHOOSE c \in st.caps : c[1] = "agent")[2]>> ELSE <<>>))

\* the arguments of hash.update(), in order
Fingerprint(st) ==
    Updates(<<"caps">> \o Sorted(CapNames(st)) \o <<"haves">> \o Sorted(st.haves)
        \o <<"wants">> \o Sorted(st.wants) \o SortedList(st.depth_lines)
        \o (IF st.done THEN <<"done">> ELSE <<>>))

\* input.decode() raises UnicodeDecodeError
Undecodable(pkts) == \E i \in DOMAIN pkts : pkts[i].k = "bin"

\* UploadPackInputParser(input): the parser's fields; the constructor
\* raises when its except block does (input.decode() in the log call); u is
\* the value of uuid.uuid4()
UploadPackInputParser(pkts, u) ==
    LET hdr == parse_header(NewParser, pkts)
        st == IF hdr.parse_error THEN hdr ELSE parse_lists(hdr, Tail(pkts))
    IN IF ~st.parse_error
       THEN [st EXCEPT !.filter = "filter" \in CapNames(st), !.hash = Fingerprint(st)]
       ELSE IF Undecodable(pkts) THEN [st EXCEPT !.raises = TRUE]
       ELSE [st EXCEPT !.hash = "uuid4-" \o ToString(u)]

\* mutant: can_be_cached without the `if self.filter` test
can_be_cached_NoFilterTest(st, env) ==
    /\ st.haves = {} /\ st.done
    /\ "side-band" \in CapNames(st) \/ "side-band-64k" \in CapNames(st)
    /\ env.multi \/ Cardinality(st.wants) <= 1
    /\ env.depth \/ ~st.depth

can_be_cached(st, env) ==
    /\ st.haves = {} /\ st.done
    /\ "side-band" \in CapNames(st) \/ "side-band-64k" \in CapNames(st)
    /\ ~st.filter
    /\ env.multi \/ Cardinality(st.wants) <= 1
    /\ env.depth \/ ~st.depth

\* input[:128]
First128(pkts) == SubSeq(pkts, 1, IF Len(pkts) < ErrPrefix THEN Len(pkts) ELSE ErrPrefix)

\* to_packet(("ERR " + error).encode())
ErrPacket(text, arg) == [pkt |-> "ERR", text |-> text, arg |-> arg]

NewHandler ==
    [ran |-> FALSE, raised |-> FALSE, parsed |-> NewParser, written |-> <<>>,
     cached |-> FALSE, executed |-> FALSE]

\* mutant: run() without the `if not parsed_input.wants` return
Run_NoWantsTest(u) ==
    /\ ~handler.ran
    /\ LET p == UploadPackInputParser(input, u)
           h == [NewHandler EXCEPT !.ran = TRUE]
       IN handler' =
            IF p.raises THEN [h EXCEPT !.raised = TRUE]
            ELSE IF p.parse_error
                 THEN [h EXCEPT !.parsed = p,
                                !.written = <<ErrPacket("Wrong upload pack input",
                                                        First128(input))>>]
            ELSE IF can_be_cached(p, environ)
                 THEN [h EXCEPT !.parsed = p, !.cached = TRUE]
            ELSE [h EXCEPT !.parsed = p, !.executed = TRUE]
    /\ UNCHANGED <<input, environ>>
    /\ UNCHANGED notRun

\* UploadPackHandler.run(input)
Run(u) ==
    /\ ~handler.ran
    /\ LET p == UploadPackInputParser(input, u)
           h == [NewHandler EXCEPT !.ran = TRUE]
       IN handler' =
            IF p.raises THEN [h EXCEPT !.raised = TRUE]
            ELSE IF p.parse_error
                 THEN [h EXCEPT !.parsed = p,
                                !.written = <<ErrPacket("Wrong upload pack input",
                                                        First128(input))>>]
            ELSE IF p.wants = {} THEN [h EXCEPT !.parsed = p]
            ELSE IF can_be_cached(p, environ)
                 THEN [h EXCEPT !.parsed = p, !.cached = TRUE]
            ELSE [h EXCEPT !.parsed = p, !.executed = TRUE]
    /\ UNCHANGED <<input, environ>>
    /\ UNCHANGED notRun

\* before any request: no body, the flags' defaults ("false")
InitRunVars ==
    /\ input = <<>>
    /\ environ = [multi |-> FALSE, depth |-> FALSE]
    /\ handler = NewHandler

NextRun == \E u \in 1..MaxUuid : Run(u)

(***************************************************************************)
(* PackCache.exists() on one entry file, byte by byte: "0" is the byte of  *)
(* the digit 0, "x" any other byte.                                        *)
(***************************************************************************)
Bytes == {"0", "x"}
NoEntry == [there |-> FALSE, bytes |-> <<>>]
Entries == {NoEntry} \cup {[there |-> TRUE, bytes |-> b] : b \in SeqsUpTo(Bytes, MaxBytes)}

\* f.seek(-4, os.SEEK_END); f.read(4)
Tail4(b) == SubSeq(b, Len(b) - 3, Len(b))

\* exists(): os.path.exists and st_size > 0, then the seek to 4 bytes before
\* the end, which raises OSError (EINVAL) on a file shorter than 4 bytes,
\* then the comparison of the 4 bytes read with b"0000"
PackCache_exists(e) ==
    IF e.there /\ Len(e.bytes) > 0
    THEN IF Len(e.bytes) < 4 THEN "OSError"
         ELSE IF Tail4(e.bytes) = <<"0", "0", "0", "0">> THEN "True"
         ELSE "False"
    ELSE "False"

\* a request calls exists() on the entry
CallExists ==
    /\ verdict = "none"
    /\ verdict' = PackCache_exists(entry)
    /\ UNCHANGED entry
    /\ UNCHANGED notFile

InitFileVars ==
    /\ entry = NoEntry
    /\ verdict = "none"

NextExists == CallExists

(***************************************************************************)
(* PackCacheCleaner._clean_task over the entries of the cache directory,   *)
(* with the requests that populate entries and serve them.  The cleaner    *)
(* works on the DirEntry stats it cached when it scanned; FileLock blocks  *)
(* in flock while a send_pack holds the entry's read lock.                 *)
(***************************************************************************)
Hashes == 1..NumEntries
NoFile == [there |-> FALSE, mtime |-> 0, size |-> 0]
IdleCleaner == [pc |-> "idle", todo |-> <<>>]

\* sum(f.stat().st_size for f in all_files)
RECURSIVE TotalSize(_, _)
TotalSize(st, S) ==
    IF S = {} THEN 0
    ELSE LET e == CHOOSE e \in S : TRUE IN st[e].size + TotalSize(st, S \ {e})

\* the last of all_files after sort(key=mtime, reverse=True)
Oldest(st, S) == CHOOSE e \in S : \A f \in S : st[e].mtime <= st[f].mtime

\* the loop `while total_size - rm_size >= self.max_size`: to_delete
RECURSIVE ToDelete(_, _, _)
ToDelete(st, S, left) ==
    IF left < MaxCacheSize \/ S = {} THEN <<>>
    ELSE LET e == Oldest(st, S) IN
         <<e>> \o ToDelete(st, S \ {e}, left - st[e].size)

\* cache_pack has written a new entry
Populate(e, sz) ==
    /\ ~store[e].there
    /\ now < MaxClock
    /\ store' = [store EXCEPT ![e] = [there |-> TRUE, mtime |-> now, size |-> sz]]
    /\ now' = now + 1
    /\ UNCHANGED <<serving, cleaner>>
    /\ UNCHANGED notClean

\* run_with_cache: the read lock is granted, exists() is true, send_pack starts
ServeStart(e) ==
    /\ store[e].there
    /\ e \notin serving
    /\ serving' = serving \cup {e}
    /\ UNCHANGED <<store, now, cleaner>>
    /\ UNCHANGED notClean

\* send_pack ends: os.utime(filename) for LRU, then the read lock is released
ServeEnd(e) ==
    /\ e \in serving
    /\ now < MaxClock
    /\ store' = [store EXCEPT ![e].mtime = now]
    /\ now' = now + 1
    /\ serving' = serving \ {e}
    /\ UNCHANGED cleaner
    /\ UNCHANGED notClean

\* _clean_task up to the deletions: scandir, the sizes, the sort and the
\* choice of to_delete, all on the stats cached at this point
CleanScan ==
    /\ cleaner.pc = "idle"
    /\ LET all_files == {e \in Hashes : store[e].there}
           total_size == TotalSize(store, all_files)
           to_delete == ToDelete(store, all_files, total_size)
       IN cleaner' = IF total_size < MaxCacheSize THEN IdleCleaner
                     ELSE [pc |-> "deleting", todo |-> to_delete]
    /\ UNCHANGED <<store, now, serving>>
    /\ UNCHANGED notClean

\* `with FileLock(f.path) as flock: flock.delete()` for the next file of
\* to_delete: the flock is granted once no send_pack holds the read lock
CleanDelete ==
    /\ cleaner.pc = "deleting"
    /\ Head(cleaner.todo) \notin serving
    /\ store' = [store EXCEPT ![Head(cleaner.todo)] = NoFile]
    /\ cleaner' = IF Len(cleaner.todo) = 1 THEN IdleCleaner
                  ELSE [cleaner EXCEPT !.todo = Tail(@)]
    /\ UNCHANGED <<now, serving>>
    /\ UNCHANGED notClean

InitCleanVars ==
    /\ store = [e \in Hashes |-> NoFile]
    /\ now = 1
    /\ serving = {}
    /\ cleaner = IdleCleaner

NextClean ==
    \/ \E e \in Hashes, sz \in 1..MaxSize : Populate(e, sz)
    \/ \E e \in Hashes : ServeStart(e)
    \/ \E e \in Hashes : ServeEnd(e)
    \/ CleanScan
    \/ CleanDelete

(***************************************************************************)
(* PackCacheCleaner.clean(): the throttle on clean.lock's mtime.  Requests *)
(* of both processes call clean(); clean_task runs in the one-thread       *)
(* executor of its process, under the flock of clean.lock.  Time is kept   *)
(* as `recent`: less than 60 s have passed since the file's mtime.         *)
(***************************************************************************)
NoCleanLock == [there |-> FALSE, recent |-> FALSE]

\* clean(): nothing to do when the lock file is younger than 60 s, else
\* clean_task is handed to the executor
Clean(r) ==
    /\ calls[r] = "idle"
    /\ calls' = [calls EXCEPT ![r] = IF cleanlock.there /\ cleanlock.recent
                                     THEN "idle" ELSE "queued"]
    /\ UNCHANGED <<cleanlock, scans>>
    /\ UNCHANGED notThrottle

\* the executor's thread of the request's process takes clean_task from its
\* queue: FileLock.__enter__ opens clean.lock with "a+" (a file it creates
\* gets the mtime of this moment) and asks for the flock
CleanTaskOpen(r) ==
    /\ calls[r] = "queued"
    /\ \A q \in Reqs \ {r} : ReqProc(q) = ReqProc(r) => calls[q] \notin {"blocked", "running"}
    /\ calls' = [calls EXCEPT ![r] = "blocked"]
    /\ cleanlock' = IF cleanlock.there THEN cleanlock
                    ELSE [there |-> TRUE, recent |-> TRUE]
    /\ UNCHANGED scans
    /\ UNCHANGED notThrottle

\* the flock is granted: utime, then _clean_task enumerates the cache
\* directory
CleanTaskEnter(r) ==
    /\ calls[r] = "blocked"
    /\ \A q \in Reqs : calls[q] # "running"
    /\ calls' = [calls EXCEPT ![r] = "running"]
    /\ cleanlock' = [there |-> TRUE, recent |-> TRUE]
    /\ scans' = IF cleanlock.recent /\ scans > 0 THEN scans + 1 ELSE 1
    /\ UNCHANGED notThrottle

\* _clean_task returns, FileLock.__exit__
CleanTaskExit(r) ==
    /\ calls[r] = "running"
    /\ calls' = [calls EXCEPT ![r] = "idle"]
    /\ UNCHANGED <<cleanlock, scans>>
    /\ UNCHANGED notThrottle

\* 60 s go by
Minute ==
    /\ cleanlock.recent
    /\ cleanlock' = [cleanlock EXCEPT !.recent = FALSE]
    /\ UNCHANGED <<calls, scans>>
    /\ UNCHANGED notThrottle

InitThrottleVars ==
    /\ cleanlock = NoCleanLock
    /\ calls = [r \in Reqs |-> "idle"]
    /\ scans = 0

NextThrottle ==
    \/ \E r \in Reqs : Clean(r)
    \/ \E r \in Reqs : CleanTaskOpen(r)
    \/ \E r \in Reqs : CleanTaskEnter(r)
    \/ \E r \in Reqs : CleanTaskExit(r)
    \/ Minute

(***************************************************************************)
(* PacketLineChunkParser (packet_line.py) fed by StdOutReader.read         *)
(* (upload_pack.py), byte by byte.  A byte is a token: the hexadecimal     *)
(* digits of the headers, the channel bytes SB1, SB2, SB3, "N" for the     *)
(* first byte of a payload without a channel and "d" for any other byte;   *)
(* the text of the synthetic progress packet is one token.  No payload     *)
(* without a channel begins with the byte 2.  doUploadPack has read the    *)
(* first chunk (up to FirstChunkMax bytes) before cache_pack starts.       *)
(***************************************************************************)
SB1 == "\\1"
SB2 == "\\2"
SB3 == "\\3"

PktKinds == {"flush", "delim", "sb1", "sb2", "sb3", "plain"}

\* the bytes of one packet of the child's output
PktBytes(k) ==
    CASE k = "flush" -> <<"0", "0", "0", "0">>
      [] k = "delim" -> <<"0", "0", "0", "1">>
      [] k = "sb1" -> <<"0", "0", "0", "6", SB1, "d">>
      [] k = "sb2" -> <<"0", "0", "0", "6", SB2, "d">>
      [] k = "sb3" -> <<"0", "0", "0", "6", SB3, "d">>
      [] k = "plain" -> <<"0", "0", "0", "6", "N", "d">>

RECURSIVE Wire(_)
Wire(pkts) == IF pkts = <<>> THEN <<>> ELSE PktBytes(Head(pkts)) \o Wire(Tail(pkts))

\* the well-formed outputs: packets, the last of them a flush
WellFormed == {Append(q, "flush") : q \in SeqsUpTo(PktKinds, MaxPkts - 1)}

\* to_packet(b"git-cdn, using cached pack\n", channel=2)
UsingCachedPack == <<"0", "0", "2", "0", SB2, "git-cdn, using cached pack\n">>

\* int(hdr.decode(), 16) for the headers of the model
HexDigit(c) == CASE c = "0" -> 0 [] c = "1" -> 1 [] c = "2" -> 2 [] c = "6" -> 6
HexValue(hdr) == 4096 * HexDigit(hdr[1]) + 256 * HexDigit(hdr[2])
                    + 16 * HexDigit(hdr[3]) + HexDigit(hdr[4])

\* StdOutReader after first_chunk(): the bytes of stdout not yet read (from
\* offset off) and the first chunk
NewReader(data, k) ==
    [data |-> data, off |-> k, firstchunk |-> SubSeq(data, 1, k)]

\* stdout.readexactly(size): the bytes, or IncompleteReadError with what
\* was left
readexactly(rd, size) ==
    IF rd.off + size <= Len(rd.data)
    THEN [ok |-> TRUE, bytes |-> SubSeq(rd.data, rd.off + 1, rd.off + size),
          rd |-> [rd EXCEPT !.off = @ + size]]
    ELSE [ok |-> FALSE, bytes |-> SubSeq(rd.data, rd.off + 1, Len(rd.data)),
          rd |-> [rd EXCEPT !.off = Len(rd.data)]]

\* StdOutReader.read(size)
read(rd, size) ==
    LET fc == rd.firstchunk
        rest == [rd EXCEPT !.firstchunk = <<>>]
    IN IF fc # <<>>
       THEN IF size > Len(fc)
            THEN LET r == readexactly(rest, size - Len(fc)) IN
                 IF r.ok THEN [r EXCEPT !.bytes = fc \o @] ELSE r
            ELSE IF size = Len(fc)
                 THEN [ok |-> TRUE, bytes |-> fc, rd |-> rest]
                 ELSE [ok |-> TRUE, bytes |-> SubSeq(fc, 1, size),
                       rd |-> [rd EXCEPT !.firstchunk = SubSeq(fc, size + 1, Len(fc))]]
       ELSE readexactly(rd, size)

\* read_header(): the 4 bytes, nothing at the end of the stream, or
\* ParseError on a partial header
read_header(rd) ==
    LET r == read(rd, 4) IN
    IF r.ok THEN [err |-> "", hdr |-> r.bytes, rd |-> r.rd]
    ELSE IF r.bytes # <<>> THEN [err |-> "ParseError", hdr |-> <<>>, rd |-> r.rd]
    ELSE [err |-> "", hdr |-> <<>>, rd |-> r.rd]

\* process_chunks(): what the generator has yielded when it ends, and the
\* exception it ends with, if any
RECURSIVE process_chunks(_, _, _, _)
process_chunks(rd, first_sideband, endflush, out) ==
    LET h == read_header(rd) IN
    IF h.err # "" THEN [err |-> h.err, out |-> out]
    ELSE IF h.hdr = <<>>
         THEN [err |-> IF endflush THEN "" ELSE "ParseError", out |-> out]
    ELSE LET pkt_len == HexValue(h.hdr) IN
         IF pkt_len = 0 THEN process_chunks(h.rd, first_sideband, TRUE, out \o h.hdr)
         ELSE IF pkt_len < 5 THEN [err |-> "ParseError", out |-> out]
         ELSE LET p == read(h.rd, pkt_len - 4) IN
              IF ~p.ok THEN [err |-> "IncompleteReadError", out |-> out]
              ELSE IF p.bytes[1] # SB2
                   THEN process_chunks(p.rd, first_sideband, FALSE,
                                       out \o h.hdr \o p.bytes)
              ELSE IF first_sideband
                   THEN process_chunks(p.rd, FALSE, FALSE, out \o UsingCachedPack)
              ELSE process_chunks(p.rd, first_sideband, FALSE, out)

NoFilter == [done |-> FALSE, err |-> "", out |-> <<>>]

\* cache_pack iterates over PacketLineChunkParser(reader.read) to the end
FilterChunks ==
    /\ ~filt.done
    /\ LET r == process_chunks(NewReader(Wire(stream), split), TRUE, FALSE, <<>>) IN
       filt' = [done |-> TRUE, err |-> r.err, out |-> r.out]
    /\ UNCHANGED <<stream, split>>
    /\ UNCHANGED notChunks

\* before any child has run
InitChunkVars ==
    /\ stream = <<"flush">>
    /\ split = 4
    /\ filt = NoFilter

NextChunks == FilterChunks

(***************************************************************************)
(* ensure_proc_terminated, in its two versions: util.py's (impl "util",    *)
(* used by repo_cache.py) and upload_pack.py's (impl "upload_pack", used   *)
(* by doUploadPack, run_git and clone).  A child is alive or not; its exit *)
(* is observed once the event loop has set proc.returncode.  A wait that   *)
(* times out leaves the returncode unobserved.  The log keeps what the     *)
(* call did: the waits with their timeout, and the signals.                *)
(***************************************************************************)
Kids == 1..NumKids
NewKid == [alive |-> TRUE, observed |-> FALSE]
NewEt == [pc |-> "idle", impl |-> "util", state |-> "Wait", log |-> <<>>]

\* TerminateState.increment
increment(state) ==
    CASE state = "Wait" -> "Term" [] state = "Term" -> "Kill" [] state = "Kill" -> "Kill"

\* the child exits, by itself or of a signal
KidExit(k) ==
    /\ kid[k].alive
    /\ kid' = [kid EXCEPT ![k].alive = FALSE]
    /\ UNCHANGED et
    /\ UNCHANGED notTerm

\* the event loop's child watcher sets proc.returncode
KidReaped(k) ==
    /\ ~kid[k].alive
    /\ ~kid[k].observed
    /\ kid' = [kid EXCEPT ![k].observed = TRUE]
    /\ UNCHANGED et
    /\ UNCHANGED notTerm

\* ensure_proc_terminated(proc, cmd) is called: with a returncode both
\* versions return at once, else the first wait starts
EtStart(k, impl) ==
    /\ et[k].pc = "idle"
    /\ et' = [et EXCEPT ![k] =
                IF kid[k].observed THEN [NewEt EXCEPT !.pc = "returned", !.impl = impl]
                ELSE [NewEt EXCEPT !.pc = "waiting", !.impl = impl,
                                   !.log = <<"wait(timeout)">>]]
    /\ UNCHANGED kid
    /\ UNCHANGED notTerm

\* proc.wait() returns within the timeout: the call returns
EtWaited(k) ==
    /\ et[k].pc = "waiting"
    /\ kid[k].observed
    /\ et' = [et EXCEPT ![k].pc = "returned"]
    /\ UNCHANGED kid
    /\ UNCHANGED notTerm

\* asyncio.TimeoutError in util.py's version: terminate and wait 30 s, then
\* kill and wait 30 s, then give up
UtilTimeout(k) ==
    /\ et[k].pc = "waiting"
    /\ et[k].impl = "util"
    /\ ~kid[k].observed
    /\ et' = [et EXCEPT ![k] =
                CASE @.state = "Wait" ->
                        [@ EXCEPT !.state = "Term", !.log = @ \o <<"terminate", "wait(30)">>]
                  [] @.state = "Term" ->
                        [@ EXCEPT !.state = "Kill", !.log = @ \o <<"kill", "wait(30)">>]
                  [] @.state = "Kill" -> [@ EXCEPT !.pc = "returned"]]
    /\ UNCHANGED kid
    /\ UNCHANGED notTerm

\* asyncio.TimeoutError in upload_pack.py's version: the state is
\* incremented and the loop goes round: terminate or kill, then
\* wait_for(proc.wait(), timeout=timeout)
UpTimeout(k) ==
    /\ et[k].pc = "waiting"
    /\ et[k].impl = "upload_pack"
    /\ ~kid[k].observed
    /\ Len(et[k].log) + 2 <= MaxEvents
    /\ et' = [et EXCEPT ![k] =
                [@ EXCEPT !.state = increment(@),
                          !.log = @ \o <<IF increment(et[k].state) = "Term"
                                         THEN "terminate" ELSE "kill",
                                         "wait(timeout)">>]]
    /\ UNCHANGED kid
    /\ UNCHANGED notTerm

\* the caller goes on; its next child is started
EtNext(k) ==
    /\ et[k].pc = "returned"
    /\ et' = [et EXCEPT ![k] = NewEt]
    /\ kid' = [kid EXCEPT ![k] = NewKid]
    /\ UNCHANGED notTerm

InitTermVars ==
    /\ kid = [k \in Kids |-> NewKid]
    /\ et = [k \in Kids |-> NewEt]

NextTerm ==
    \/ \E k \in Kids : KidExit(k)
    \/ \E k \in Kids : KidReaped(k)
    \/ \E k \in Kids, impl \in {"util", "upload_pack"} : EtStart(k, impl)
    \/ \E k \in Kids : EtWaited(k)
    \/ \E k \in Kids : UtilTimeout(k)
    \/ \E k \in Kids : UpTimeout(k)
    \/ \E k \in Kids : EtNext(k)

(***************************************************************************)
(* The clone bundle of one repository: the file <name>_clone.bundle and    *)
(* its lock <name>.lock (util.get_bundle_paths).  RepoCache.clone (kind    *)
(* "clone") and CloneBundleManager.handle_clone_bundle (kind "serve") use  *)
(* it; the lock's leases are granted as aiolock grants them.  `blast` keeps*)
(* the last change made to the file and the lease its author held.         *)
(***************************************************************************)
BTasks == 1..NumBundleTasks
NewBTask == [pc |-> "idle", kind |-> "clone"]
NoChange == [op |-> "none", held |-> "UN"]

BHoldsSh(t) == bt[t].pc \in {"bundle_clone", "streaming"}
BHoldsEx(t) == bt[t].pc = "download"

\* clone() or handle_clone_bundle() starts and asks for the shared lock
BStart(t, kind) ==
    /\ bt[t].pc = "idle"
    /\ bt' = [bt EXCEPT ![t] = [pc |-> "sh_wait", kind |-> kind]]
    /\ UNCHANGED <<bundle, blast>>
    /\ UNCHANGED notBundle

\* the shared lock is granted.  clone(): with a bundle file git clone runs
\* from it, without one the block is left for the clone from upstream.
\* handle_clone_bundle(): a file of the expected size is streamed to the
\* client, else the block is left and the exclusive lock is asked for
BShared(t, sized) ==
    /\ bt[t].pc = "sh_wait"
    /\ \A u \in BTasks : ~BHoldsEx(u)
    /\ bt' = [bt EXCEPT ![t].pc =
                IF bt[t].kind = "clone"
                THEN (IF bundle.exists THEN "bundle_clone" ELSE "upstream")
                ELSE (IF bundle.exists /\ sized THEN "streaming" ELSE "ex_wait")]
    /\ UNCHANGED <<bundle, blast>>
    /\ UNCHANGED notBundle

\* os.unlink(self.bundle_file): FileNotFoundError without the file
Unlink(t, held, after) ==
    IF bundle.exists
    THEN /\ bundle' = [exists |-> FALSE, good |-> FALSE]
         /\ blast' = [op |-> "delete", held |-> held]
         /\ bt' = [bt EXCEPT ![t].pc = after]
    ELSE /\ UNCHANGED <<bundle, blast>>
         /\ bt' = [bt EXCEPT ![t].pc = "raised"]

\* run_git("clone", "--bare", bundle_file, directory) returns: on success
\* clone() is done, on failure the bundle file is unlinked and the block
\* is left for the clone from upstream
BCloneExit(t, ok) ==
    /\ bt[t].pc = "bundle_clone"
    /\ ok => bundle.good
    /\ IF ok
       THEN /\ bt' = [bt EXCEPT ![t].pc = "done"]
            /\ UNCHANGED <<bundle, blast>>
       ELSE Unlink(t, "SH", "upstream")
    /\ UNCHANGED notBundle

\* stream_and_md5sum(inf, None, ...) has sent the cached file: when the
\* checksum differs the file is unlinked
BStreamEnd(t) ==
    /\ bt[t].pc = "streaming"
    /\ IF bundle.exists /\ bundle.good
       THEN /\ bt' = [bt EXCEPT ![t].pc = "done"]
            /\ UNCHANGED <<bundle, blast>>
       ELSE Unlink(t, "SH", "done")
    /\ UNCHANGED notBundle

\* the exclusive lock is granted: open(self.bundle_file, "wb") creates or
\* truncates the file and the download starts
BExclusive(t) ==
    /\ bt[t].pc = "ex_wait"
    /\ \A u \in BTasks : ~BHoldsEx(u) /\ ~BHoldsSh(u)
    /\ bt' = [bt EXCEPT ![t].pc = "download"]
    /\ bundle' = [exists |-> TRUE, good |-> FALSE]
    /\ blast' = [op |-> IF bundle.exists THEN "overwrite" ELSE "create", held |-> "EX"]
    /\ UNCHANGED notBundle

\* stream_and_md5sum(None, outf, ...) has written the download: when the
\* checksum differs the file is unlinked
BDownloadEnd(t, match) ==
    /\ bt[t].pc = "download"
    /\ IF match
       THEN /\ bt' = [bt EXCEPT ![t].pc = "done"]
            /\ bundle' = [bundle EXCEPT !.good = TRUE]
            /\ UNCHANGED blast
       ELSE Unlink(t, "EX", "done")
    /\ UNCHANGED notBundle

\* rm -rf, git clone from upstream, and the rest of clone(); the response
\* of handle_clone_bundle() is returned; an exception leaves the handler
BEnd(t) ==
    /\ bt[t].pc \in {"upstream", "done", "raised"}
    /\ bt' = [bt EXCEPT ![t] = NewBTask]
    /\ UNCHANGED <<bundle, blast>>
    /\ UNCHANGED notBundle

InitBundleVars ==
    /\ bundle = [exists |-> FALSE, good |-> FALSE]
    /\ bt = [t \in BTasks |-> NewBTask]
    /\ blast = NoChange

NextBundle ==
    \/ \E t \in BTasks, k \in {"clone", "serve"} : BStart(t, k)
    \/ \E t \in BTasks, sized \in BOOLEAN : BShared(t, sized)
    \/ \E t \in BTasks, ok \in BOOLEAN : BCloneExit(t, ok)
    \/ \E t \in BTasks : BStreamEnd(t)
    \/ \E t \in BTasks : BExclusive(t)
    \/ \E t \in BTasks, match \in BOOLEAN : BDownloadEnd(t, match)
    \/ \E t \in BTasks : BEnd(t)

(***************************************************************************)
(* The locks a task takes, in the order it takes them: the pack cache      *)
(* entry, the mirror, the bundle, the semaphore, and clean.lock of the     *)
(* cleaner.  One entry, one mirror, one bundle; the state of a lock is     *)
(* what the tasks hold.                                                    *)
(***************************************************************************)
OTasks == 1..NumOrderTasks
NewOTask == [path |-> "none", pos |-> 1, held |-> {}, wait |-> FALSE]

Acq(l, m) == [op |-> "acq", lock |-> l, mode |-> m]
Rel(l) == [op |-> "rel", lock |-> l, mode |-> "UN"]

\* uploadPack(): the mirror's read lock, inside it the semaphore
uploadPack == <<Acq("mirror", "SH"), Acq("sema", "EX"), Rel("sema"), Rel("mirror")>>

\* update() and force_update(): the mirror's write lock, inside it clone()
\* with the bundle's shared lock
update == <<Acq("mirror", "EX"), Acq("bundle", "SH"), Rel("bundle"), Rel("mirror")>>

\* execute(): uploadPack, update, uploadPack, one after the other
execute == uploadPack \o update \o uploadPack

\* run_with_cache(): the entry's read lock, then its write lock around
\* execute(), then the read lock again
run_with_cache ==
    <<Acq("entry", "SH"), Rel("entry"), Acq("entry", "EX")>> \o execute
        \o <<Rel("entry"), Acq("entry", "SH"), Rel("entry")>>

\* clean_task(): clean.lock, inside it the lock of the entry to delete
clean_task == <<Acq("clean", "EX"), Acq("entry", "EX"), Rel("entry"), Rel("clean")>>

\* handle_clone_bundle(): the bundle's shared lock, then its exclusive one
handle_clone_bundle ==
    <<Acq("bundle", "SH"), Rel("bundle"), Acq("bundle", "EX"), Rel("bundle")>>

\* BasePrune.delete() of the janitor: the lock file of a mirror or bundle
delete(l) == <<Acq(l, "EX"), Rel(l)>>

OPaths == {"run_with_cache", "execute", "clean_task", "handle_clone_bundle",
           "delete_mirror", "delete_bundle"}

Program(what) ==
    CASE what = "run_with_cache" -> run_with_cache
      [] what = "execute" -> execute
      [] what = "clean_task" -> clean_task
      [] what = "handle_clone_bundle" -> handle_clone_bundle
      [] what = "delete_mirror" -> delete("mirror")
      [] what = "delete_bundle" -> delete("bundle")
      [] OTHER -> <<>>

\* the paths that are coroutines of a request, which a disconnecting
\* client cancels; clean_task runs in a thread, delete in a script
Cancellable == {"run_with_cache", "execute", "handle_clone_bundle"}

\* the order of the locks
LockRank(l) ==
    CASE l = "clean" -> 0
      [] l = "entry" -> 1
      [] l = "mirror" -> 2
      [] l = "bundle" -> 3
      [] l = "sema" -> 3

Active(t) == ot[t].path # "none" /\ ot[t].pos <= Len(Program(ot[t].path))
OpOf(t) == Program(ot[t].path)[ot[t].pos]
OHolders(l) == {u \in OTasks : \E h \in ot[u].held : h.lock = l}
ExHolders(l) == {u \in OTasks : [lock |-> l, mode |-> "EX"] \in ot[u].held}
ExWaiters(l) ==
    {u \in OTasks : Active(u) /\ ot[u].wait /\ OpOf(u).lock = l /\ OpOf(u).mode = "EX"}

\* the permits nobody has, holders and lost ones taken off
Permits == SemCount - Cardinality(OHolders("sema")) - lost

\* flock() on the file of the lock would succeed for t; with prio the
\* shared request also stays behind the exclusive waiters (FLock lets the
\* writers of its process go first)
CanLock(t, prio) ==
    IF OpOf(t).mode = "EX"
    THEN OHolders(OpOf(t).lock) = {}
    ELSE /\ ExHolders(OpOf(t).lock) = {}
         /\ prio => ExWaiters(OpOf(t).lock) = {}

\* the calls of cancelled waiters (0) that follow each other in the
\* thread's queue take and give back a permit one after the other: they
\* are kept as one
RECURSIVE Squash(_)
Squash(q) ==
    IF Len(q) < 2 THEN q
    ELSE IF q[1] = 0 /\ q[2] = 0 THEN Squash(Tail(q))
    ELSE <<q[1]>> \o Squash(Tail(q))

\* a handler, the cleaner's thread or the janitor starts
OStart(t, what) ==
    /\ ot[t].path = "none"
    /\ ot' = [ot EXCEPT ![t] = [NewOTask EXCEPT !.path = what]]
    /\ UNCHANGED <<semq, lost>>
    /\ UNCHANGED notOrder

\* the task comes to an `async with` (or `with`): it asks for the lock.
\* AioSemaphore.acquire tries without blocking first and else queues
\* _acquire on the executor's single thread
OAsk(t) ==
    /\ Active(t) /\ ~ot[t].wait
    /\ OpOf(t).op = "acq"
    /\ IF OpOf(t).lock = "sema" /\ Permits > 0
       THEN /\ ot' = [ot EXCEPT ![t].held = @ \cup {[lock |-> "sema", mode |-> "EX"]},
                                ![t].pos = @ + 1]
            /\ UNCHANGED semq
       ELSE /\ ot' = [ot EXCEPT ![t].wait = TRUE]
            /\ semq' = IF OpOf(t).lock = "sema" THEN Append(semq, t) ELSE semq
    /\ UNCHANGED lost
    /\ UNCHANGED notOrder

\* the file lock is granted
OGrant(t, prio) ==
    /\ Active(t) /\ ot[t].wait
    /\ OpOf(t).lock # "sema"
    /\ CanLock(t, prio)
    /\ ot' = [ot EXCEPT ![t].held = @ \cup {[lock |-> OpOf(t).lock, mode |-> OpOf(t).mode]},
                        ![t].pos = @ + 1,
                        ![t].wait = FALSE]
    /\ UNCHANGED <<semq, lost>>
    /\ UNCHANGED notOrder

\* the executor's thread returns from sema.acquire() for the first call
\* queued: the waiter has the permit; for a call whose waiter was
\* cancelled, _acquire gives the permit back at once
OSemaThread ==
    /\ semq # <<>>
    /\ Permits > 0
    /\ semq' = Tail(semq)
    /\ ot' = IF Head(semq) = 0
             THEN ot
             ELSE [ot EXCEPT ![Head(semq)].held = @ \cup {[lock |-> "sema", mode |-> "EX"]},
                             ![Head(semq)].pos = @ + 1,
                             ![Head(semq)].wait = FALSE]
    /\ UNCHANGED lost
    /\ UNCHANGED notOrder

\* the end of the block: the lock is released
ORelease(t) ==
    /\ Active(t) /\ ~ot[t].wait
    /\ OpOf(t).op = "rel"
    /\ ot' = [ot EXCEPT ![t].held = {h \in @ : h.lock # OpOf(t).lock},
                        ![t].pos = @ + 1]
    /\ UNCHANGED <<semq, lost>>
    /\ UNCHANGED notOrder

\* the task is over
OEnd(t) ==
    /\ ot[t].path # "none"
    /\ ~Active(t)
    /\ ot' = [ot EXCEPT ![t] = NewOTask]
    /\ UNCHANGED <<semq, lost>>
    /\ UNCHANGED notOrder

\* the client is gone: the coroutine is cancelled and every `async with`
\* it is in releases its lock.  A waiter of the semaphore leaves its call
\* in the thread; when the thread is about to get the permit (the waiter
\* is first and a permit is there) the flags `acquired` and `cancel` are
\* read and written by both sides, and with `race` neither gives the
\* permit back
OCancel(t, race) ==
    /\ Active(t)
    /\ ot[t].path \in Cancellable
    /\ ot' = [ot EXCEPT ![t] = NewOTask]
    /\ IF ot[t].wait /\ OpOf(t).lock = "sema"
       THEN IF race /\ Head(semq) = t /\ Permits > 0
            THEN semq' = Tail(semq) /\ lost' = lost + 1
            ELSE /\ semq' = Squash([i \in 1..Len(semq) |->
                                        IF semq[i] = t THEN 0 ELSE semq[i]])
                 /\ UNCHANGED lost
       ELSE ~race /\ UNCHANGED <<semq, lost>>
    /\ UNCHANGED notOrder

InitOrderVars ==
    /\ ot = [t \in OTasks |-> NewOTask]
    /\ semq = <<>>
    /\ lost = 0

NextOrder ==
    \/ \E t \in OTasks, what \in OPaths : OStart(t, what)
    \/ \E t \in OTasks : OAsk(t)
    \/ \E t \in OTasks, prio \in BOOLEAN : OGrant(t, prio)
    \/ OSemaThread
    \/ \E t \in OTasks : ORelease(t)
    \/ \E t \in OTasks : OEnd(t)
    \/ \E t \in OTasks, race \in BOOLEAN : OCancel(t, race)

(***************************************************************************)
(* How the AioSemaphore wrappers are used: one per `async with`, as        *)
(* test_semaphore.py does, or one kept by its coroutine for all its        *)
(* acquires.                                                               *)
(***************************************************************************)
InitWrapVars == reuse = FALSE

(***************************************************************************)
(* The specifications: every one starts from the state after construction  *)
(* and runs the steps of one component.                                    *)
(***************************************************************************)
InitAll ==
    /\ InitLockVars
    /\ InitSemVars
    /\ InitCacheVars
    /\ InitMirrorVars
    /\ InitUpVars
    /\ InitWrapVars
    /\ InitOrderVars
    /\ InitBundleVars
    /\ InitTermVars
    /\ InitChunkVars
    /\ InitThrottleVars
    /\ InitCleanVars
    /\ InitFileVars
    /\ InitRunVars
    /\ ~hist.stale

InitCache ==
    /\ InitLockVars
    /\ InitSemVars
    /\ InitCacheVars
    /\ InitMirrorVars
    /\ InitUpVars
    /\ InitWrapVars
    /\ InitOrderVars
    /\ InitBundleVars
    /\ InitTermVars
    /\ InitChunkVars
    /\ InitThrottleVars
    /\ InitCleanVars
    /\ InitFileVars
    /\ InitRunVars

\* the pack cache holds an entry that was cut short (a file such as the
\* tests' upload_pack_trunc.bin): its last packet is not the flush
CorruptEntries == {<<"D">>, <<"F", "D">>}

InitCorrupt ==
    /\ InitLockVars
    /\ InitSemVars
    /\ InitMirrorVars
    /\ InitUpVars
    /\ InitWrapVars
    /\ InitOrderVars
    /\ InitBundleVars
    /\ InitTermVars
    /\ InitChunkVars
    /\ InitThrottleVars
    /\ InitCleanVars
    /\ InitFileVars
    /\ InitRunVars
    /\ path = 1
    /\ \E c \in CorruptEntries : files = [i \in Inos |-> IF i = 1 THEN c ELSE <<>>]
    /\ clk = [p \in Procs |-> IdleFLock]
    /\ rq = [r \in Reqs |-> NewReq]
    /\ jobs = [j \in Jobs |-> NoJob]
    /\ ev = [pc |-> "idle", ino |-> 0]
    /\ \E b \in BOOLEAN : hist = [stale |-> b, started |-> 0, spoiled |-> FALSE]

\* the requests, their children and the cleaner, with no client going away
\* (so no waiter ever leaves a deque and _try_acquire never drops a flock)
NextCorrupt ==
    \/ \E r \in Reqs : RStart(r)
    \/ \E p \in Procs : COpen(p)
    \/ \E p \in Procs : CGrant(p)
    \/ \E r \in Reqs : RRead1(r)
    \/ \E r \in Reqs : RWrite(r)
    \/ \E r \in Reqs : RRead2(r)
    \/ \E r \in Reqs : RServeDone(r)
    \/ \E r \in Reqs : RAttemptErr(r)
    \/ \E r \in Reqs, j \in Jobs, s \in Streams : RSpawn(r, j, s)
    \/ \E j \in Jobs : ChildExit(j)
    \/ \E j \in Jobs : PopWrite(j)
    \/ \E j \in Jobs : PopEnd(j)
    \/ \E r \in Reqs, q \in BOOLEAN : RFinish(r, q)
    \/ \E b \in BOOLEAN : EvScan(b)
    \/ EvDelete

SpecCorrupt == InitCorrupt /\ [][NextCorrupt]_vars

\* the entry file is in any state a file can be in
InitExists ==
    /\ InitLockVars
    /\ InitSemVars
    /\ InitCacheVars
    /\ InitMirrorVars
    /\ InitUpVars
    /\ InitWrapVars
    /\ InitOrderVars
    /\ InitBundleVars
    /\ InitTermVars
    /\ InitChunkVars
    /\ InitThrottleVars
    /\ InitCleanVars
    /\ InitRunVars
    /\ ~hist.stale
    /\ entry \in Entries
    /\ verdict = "none"

SpecExists == InitExists /\ [][NextExists]_vars

SpecClean == InitAll /\ [][NextClean]_vars

SpecThrottle == InitAll /\ [][NextThrottle]_vars

\* the child writes any well-formed output; the first chunk doUploadPack
\* reads from the pipe holds any number of its bytes up to FirstChunkMax
InitChunks ==
    /\ InitLockVars
    /\ InitSemVars
    /\ InitCacheVars
    /\ InitMirrorVars
    /\ InitUpVars
    /\ InitWrapVars
    /\ InitOrderVars
    /\ InitBundleVars
    /\ InitTermVars
    /\ InitThrottleVars
    /\ InitCleanVars
    /\ InitFileVars
    /\ InitRunVars
    /\ ~hist.stale
    /\ stream \in WellFormed
    /\ split \in 1..FirstChunkMax
    /\ split <= Len(Wire(stream))
    /\ filt = NoFilter

SpecChunks == InitChunks /\ [][NextChunks]_vars

SpecTerm == InitAll /\ [][NextTerm]_vars

SpecBundle == InitAll /\ [][NextBundle]_vars

\* the lock with its scheduling: a granted coroutine is resumed, a holder
\* leaves its `async with` block, the event loop runs its callbacks and a
\* thread blocked in flock() gets the lock when it is free again and
\* again; nothing obliges a coroutine to ask for the lock or to be cancelled
FairLock ==
    /\ InitAll
    /\ [][NextLock]_vars
    /\ \A t \in Tasks : WF_vars(Wake(t)) /\ WF_vars(Release(t))
    /\ \A p \in Procs : /\ WF_vars(TryAcquireSoon(p))
                        /\ SF_vars(SyncFlock(p))
                        /\ WF_vars(AfterUnlock(p))

SpecOrder == InitAll /\ [][NextOrder]_vars

SpecMirror == InitAll /\ [][NextMirror]_vars

SpecCache == InitCache /\ [][NextCache]_vars

SpecSema == InitAll /\ [][NextSema]_vars

\* the semaphore used through wrappers that are kept and used again, by
\* the coroutines of one worker process
InitReuse ==
    /\ InitLockVars
    /\ InitSemVars
    /\ InitCacheVars
    /\ InitMirrorVars
    /\ InitUpVars
    /\ InitOrderVars
    /\ InitBundleVars
    /\ InitTermVars
    /\ InitChunkVars
    /\ InitThrottleVars
    /\ InitCleanVars
    /\ InitFileVars
    /\ InitRunVars
    /\ ~hist.stale
    /\ reuse = TRUE

NextReuse ==
    \/ \E t \in Tasks : ProcOf(t) = 1 /\ SemAcquireFast(t)
    \/ \E t \in Tasks : ProcOf(t) = 1 /\ SemAcquireSlow(t)
    \/ PoolStart(1)
    \/ PoolGot(1)
    \/ PoolFlag(1)
    \/ PoolCheck(1)
    \/ \E t \in Tasks : ProcOf(t) = 1 /\ SemWake(t)
    \/ \E t \in Tasks : ProcOf(t) = 1 /\ SemCancel(t)
    \/ \E t \in Tasks : ProcOf(t) = 1 /\ SemCancelRead(t)
    \/ \E t \in Tasks : ProcOf(t) = 1 /\ SemCancelAct(t)
    \/ \E t \in Tasks : ProcOf(t) = 1 /\ SemRelease(t)

SpecReuse == InitReuse /\ [][NextReuse]_vars

SpecLock == InitAll /\ [][NextLock]_vars

SpecUp == InitAll /\ [][NextUp]_vars

\* a request arrives with some body, under some setting of the two flags
InitRun ==
    /\ InitLockVars
    /\ InitSemVars
    /\ InitCacheVars
    /\ InitMirrorVars
    /\ InitUpVars
    /\ InitWrapVars
    /\ InitOrderVars
    /\ InitBundleVars
    /\ InitTermVars
    /\ InitChunkVars
    /\ InitThrottleVars
    /\ InitCleanVars
    /\ InitFileVars
    /\ ~hist.stale
    /\ input \in Inputs
    /\ environ \in [multi : BOOLEAN, depth : BOOLEAN]
    /\ handler = NewHandler

SpecRun == InitRun /\ [][NextRun]_vars

\* the same with the flags left at their defaults
InitParse ==
    /\ InitRun
    /\ environ = [multi |-> FALSE, depth |-> FALSE]

SpecParse == InitParse /\ [][NextRun]_vars

\* SpecSema with the progress the threads and the event loop make: the
\* executor's thread runs its jobs, a blocked sema.acquire() returns when
\* permits keep coming back, resumed coroutines run, and the body of an
\* `async with` ends.  Nothing makes a client start or cancel a request.
FairSema ==
    /\ SpecSema
    /\ \A p \in Procs :
          /\ WF_vars(PoolStart(p))
          /\ SF_vars(PoolGot(p))
          /\ WF_vars(PoolFlag(p))
          /\ WF_vars(PoolCheck(p))
    /\ \A t \in Tasks :
          /\ WF_vars(SemWake(t))
          /\ WF_vars(SemCancelRead(t))
          /\ WF_vars(SemCancelAct(t))
          /\ WF_vars(SemRelease(t))

\* a coroutine holds a lease once its future has a result, until it releases
Holds(t) ==
    \/ co[t].pc = "held"
    \/ co[t].pc = "waiting" /\ t \in locks[ProcOf(t)].granted

(* C3: the holder of an exclusive lease never coexists with another holder
   of a lease on the same path, in its own process or in another one. *)
C3_MutualExclusion ==
    \A t, u \in Tasks :
        (t # u /\ Holds(t) /\ Holds(u)) => (co[t].mode = "SH" /\ co[u].mode = "SH")

C3_Witness ==
    \E t, u \in Tasks :
        /\ ProcOf(t) # ProcOf(u)
        /\ co[t].pc = "held" /\ co[t].mode = "EX"
        /\ co[u].pc = "waiting" /\ co[u].mode = "SH"
        /\ locks[ProcOf(u)].state = "ACQUIRING_SH"
        /\ \E v \in Tasks : v # t /\ ProcOf(v) = ProcOf(t) /\ co[v].pc = "waiting"

\* the exclusive waiters of t's own process that were queued before t asked
AheadLocal(t) == {u \in ahead[t] : ProcOf(u) = ProcOf(t)}

(* C5 (as stated): once an exclusive waiter is queued on a lock path, no
   shared acquisition requested later is granted before that waiter has been
   granted and has released, whichever process the two are in. *)
C5_WriterPriorityAnyProcess ==
    \A t \in Tasks : (Holds(t) /\ co[t].mode = "SH") => ahead[t] = {}

(* C5 (amended): within one process, once an exclusive waiter is queued on
   the lock, no shared acquisition requested later by a coroutine of that
   process is granted before that waiter has been granted and has released
   (or was cancelled). *)
C5_WriterPriorityLocal ==
    \A t \in Tasks : (Holds(t) /\ co[t].mode = "SH") => AheadLocal(t) = {}

\* a shared request queued behind an exclusive waiter while the process
\* already holds the shared flock for another coroutine
C5_Witness ==
    \E t, u, h \in Tasks :
        /\ co[h].pc = "held" /\ co[h].mode = "SH"
        /\ ProcOf(h) = ProcOf(t)
        /\ u \in AheadLocal(t)
        /\ co[t].pc = "waiting" /\ ~Holds(t)
        /\ locks[ProcOf(t)].state = "ACQUIRED_SH"

\* the coroutines that own a permit: inside `async with`, or about to be
SemHolders == {t \in Tasks : sm[t].pc = "held" \/ (sm[t].pc = "waiting" /\ sm[t].fut = "done")}

\* nothing runs and nothing is queued in any executor
SemQuiescent ==
    /\ \A t \in Tasks : sm[t].pc = "idle"
    /\ \A p \in Procs : pool[p] = NewPool

(* C6: cancelling acquires leaks no permit: the coroutines holding a permit
   never outnumber the count, and once every caller has left and every
   executor is idle, all the permits are back in the semaphore. *)
C6_NoPermitLeak ==
    /\ Cardinality(SemHolders) <= SemCount
    /\ SemQuiescent => sem = SemCount

\* the cache_pack coroutines in progress
Populating == {j \in Jobs : jobs[j].st = "run"}

(* C1: at most one populate (cache_pack) of the fingerprint is in progress
   at any time, over all the worker processes, whatever the interleaving of
   requests, cancellations, failed populates and evictions. *)
C1_OnePopulate == Cardinality(Populating) <= 1

\* a request in send_pack, under its shared lease, after exists() was true
Serving(r) == rq[r].pc \in {"serve1", "serve2"}

(* C2: a request that serves from the cache reads a fully written entry:
   the file it sends is the complete output of one child, and no populate
   is still writing it. *)
C2_ServesCompleteEntry ==
    \A r \in Reqs : Serving(r) =>
        /\ files[rq[r].ino] \in {s \in Streams : Complete(s)}
        /\ \A j \in Populating : jobs[j].ino # rq[r].ino

(* C7: as long as no populate has failed and nothing was evicted, the
   identical requests have started at most one git-upload-pack child
   between them. *)
C7_OneChild == ~hist.spoiled => hist.started <= 1

\* cache_pack j returns in this step
Ends(j) == jobs[j].st = "run" /\ jobs'[j].st = "none"

\* the request that started populate j still holds the write lock
OwnerLocked(j) ==
    /\ jobs[j].owner # 0
    /\ rq[jobs[j].owner].pc \in {"populate", "terminate"}

(* C8: when a populate ends, the entry does not exist or is non-empty and
   ends with "0000"; and a populate that fails unlinks the entry while the
   write lock of its request is still held. *)
C8_PopulateEndsClean ==
    [][\A j \in Jobs : Ends(j) =>
          /\ path' = 0 \/ Exists(path', files')
          /\ ~EndsWithFlush(jobs[j]) => OwnerLocked(j)]_vars

\* the client of populate j's request was cancelled during the populate
Orphaned(j) ==
    \/ jobs[j].owner = 0
    \/ rq[jobs[j].owner].pc = "terminate"

(* C10: a populate whose client was cancelled runs to its end, and when the
   child's output was complete it leaves a valid entry: the path then holds
   exactly that output, so that the next identical request is a hit. *)
C10_OrphanWarmsCache ==
    [][\A j \in Jobs :
          (Ends(j) /\ Orphaned(j) /\ Complete(jobs[j].stream)
                   /\ jobs[j].total = Len(jobs[j].stream))
          => (path' # 0 /\ files'[path'] = jobs[j].stream)]_vars

\* the git clone / git fetch children that run, and the git-upload-pack ones
GitChildren == orph + Cardinality({r \in Reqs : MHoldsEx(r)})
UpChildren == Cardinality({r \in Reqs : MHoldsSh(r)})

(* C4: for one mirror, at most one clone or fetch child runs at a time, and
   no git-upload-pack child runs while one does (several git-upload-pack
   children may run together). *)
C4_OneMirrorWriter ==
    /\ GitChildren <= 1
    /\ GitChildren = 1 => UpChildren = 0

(* C9: a cancelled run_git does not leave its git child behind: every
   clone or fetch child that runs belongs to a run_git that still waits for
   it, under the write lock. *)
C9_GitChildNotAbandoned == orph = 0

(* C11: whatever requests are cancelled, the permits taken for them come
   back, so that a request waiting for a permit never waits forever: it is
   granted the permit (or leaves because its own client went away). *)
C11_CancelNeverBlocks ==
    \A t \in Tasks : (sm[t].pc = "waiting") ~> (sm[t].pc # "waiting")

\* the git-upload-pack children that run, and the requests holding a permit
UpRunning == Cardinality({r \in Reqs : up[r].child = "run"}) + stray
UpPermit(r) == up[r].pc \in {"body", "fin", "fin_c"}

(* C12: the git-upload-pack children running at one time never outnumber
   the semaphore's count: every running child belongs to a request that
   holds a permit, which it releases only after the child has terminated. *)
C12_ChildrenWithinPermits ==
    /\ UpRunning <= SemCount
    /\ stray = 0
    /\ \A r \in Reqs : up[r].child = "run" => UpPermit(r)

\* the parser's try block raises on this body
ParseFails(pkts) ==
    LET hdr == parse_header(NewParser, pkts) IN
    IF hdr.parse_error THEN TRUE ELSE parse_lists(hdr, Tail(pkts)).parse_error

(* C13: a body that fails to parse gets the one pkt-line "ERR Wrong upload
   pack input: <first 128 bytes>" and nothing else: the fingerprint is a
   fresh uuid (never the hash of a parsed request), the pack cache is not
   used and execute() is not called. *)
C13_ParseErrorAnswered ==
    (handler.ran /\ ParseFails(input))
    => /\ ~handler.raised
       /\ handler.written = <<ErrPacket("Wrong upload pack input", First128(input))>>
       /\ handler.parsed.hash \in {"uuid4-" \o ToString(u) : u \in 1..MaxUuid}
       /\ ~handler.cached /\ ~handler.executed

(* C14: a request whose want is unknown to the mirror and to upstream ends
   after at most four upload-pack attempts and three mirror updates, and
   its last upload-pack attempt forwards the child's "ERR upload-pack: not
   our ref" packet to the client: it never ends without an answer. *)
C14_UnknownWantAnswered ==
    \A r \in Reqs : mq[r].unk => (mq[r].step <= 3 /\ mq[r].pc # "sent_none")

\* C15: clone and fetch make at most BackoffTries attempts each, and a
\* request whose mirror update failed on every attempt ends with HTTP 500
\* instead of going on to the next uploadPack.
C15_FailedUpdateIs500 ==
    \A r \in Reqs : /\ mq[r].tries < BackoffTries
                    /\ mq[r].ff => mq[r].pc = "http_500"

\* C16: a request that found a corrupt entry, took the write lock and
\* populated a valid entry goes on to the third block (read lock, send_pack)
\* and so is answered with the pack.
C16_CorruptEntryRepopulated ==
    [][\A r \in Reqs : (rq[r].pc = "finish" /\ Exists(path, files))
                            => rq'[r].pc \in {"finish", "rl2"}]_vars

\* C17: exists() answers True exactly for a file that is there, is not empty
\* and ends with the four bytes "0000", and False for every other file.
ValidEntry(e) ==
    /\ e.there
    /\ Len(e.bytes) >= 4
    /\ \A i \in (Len(e.bytes) - 3)..Len(e.bytes) : e.bytes[i] = "0"

C17_ExistsIffValidTail ==
    verdict # "none" => verdict = (IF ValidEntry(entry) THEN "True" ELSE "False")

\* the number of times v stands in the list q
Count(q, v) == Cardinality({i \in DOMAIN q : q[i] = v})

\* two parsed requests with the same capability names, wants, haves, depth
\* lines and done flag
SameContent(a, b) ==
    /\ CapNames(a) = CapNames(b)
    /\ a.wants = b.wants
    /\ a.haves = b.haves
    /\ Len(a.depth_lines) = Len(b.depth_lines)
    /\ \A i \in DOMAIN a.depth_lines :
            Count(a.depth_lines, a.depth_lines[i]) = Count(b.depth_lines, a.depth_lines[i])
    /\ a.done = b.done

\* the requests that parse and have the content of the request at hand
Twins ==
    {y \in Inputs : LET q == UploadPackInputParser(y, 1) IN
                        ~q.parse_error /\ SameContent(q, handler.parsed)}

(* C18: the fingerprint of a parsed request depends only on its capability
   names, wants, haves, depth lines and done flag: every request with the
   same content, whatever its agent value and the order or repetition of
   its lines, gets the same fingerprint. *)
C18_FingerprintByContent ==
    (handler.ran /\ ~handler.raised /\ ~handler.parsed.parse_error)
    => \A y \in Twins : UploadPackInputParser(y, 1).hash = handler.parsed.hash

\* a parsed request with two wants and agent git/1 that has a twin with
\* agent git/2 and a twin whose wants come in the other order
C18_Witness ==
    /\ handler.ran /\ ~handler.raised /\ ~handler.parsed.parse_error
    /\ handler.parsed.wants = {"A", "B"}
    /\ <<"agent", "git/1">> \in handler.parsed.caps
    /\ \E y \in Twins : <<"agent", "git/2">> \in UploadPackInputParser(y, 1).caps
    /\ \E y \in Twins : y[1].id # input[1].id

\* the request at hand is cacheable
Cacheable ==
    LET p == handler.parsed IN
    /\ ~handler.raised /\ ~p.parse_error
    /\ p.done
    /\ p.haves = {}
    /\ {"side-band", "side-band-64k"} \cap CapNames(p) # {}
    /\ "filter" \notin CapNames(p)
    /\ Cardinality(p.wants) <= 1 \/ environ.multi
    /\ ~p.depth \/ environ.depth

(* C19: run() goes through the pack cache (run_with_cache) exactly for the
   cacheable requests; any other request that parsed and has a want is
   handed to execute() with no PackCache, and no request gets both. *)
C19_CacheIffCacheable ==
    handler.ran
    => /\ handler.cached <=> Cacheable
       /\ (~Cacheable /\ ~handler.raised /\ ~handler.parsed.parse_error
              /\ handler.parsed.wants # {}) => handler.executed
       /\ ~(handler.cached /\ handler.executed)

\* a request with two wants is cached under PACK_CACHE_MULTI
C19_Witness ==
    /\ handler.ran /\ handler.cached
    /\ Cardinality(handler.parsed.wants) = 2
    /\ environ.multi /\ ~environ.depth

(* C20: the cleaner removes entries in least-recently-used order and stops
   once the total is below max_size: when it removes an entry, no entry
   with an older mtime remains and the total size is not below max_size. *)
C20_EvictsLeastRecentlyUsed ==
    [][\A e \in Hashes :
          (store[e].there /\ ~store'[e].there)
          => /\ \A f \in Hashes : store[f].there => store[e].mtime <= store[f].mtime
             /\ TotalSize(store, {f \in Hashes : store[f].there}) >= MaxCacheSize]_vars

(* C21: the cleaner enumerates the cache at most once per 60 seconds: no
   _clean_task starts less than 60 s after the start of the one before
   (scans counts the enumerations started with less than 60 s between one
   and the next), whoever called clean() and when. *)
C21_OneCleanupPerMinute == scans <= 1

\* what the filter should make of a packet: the first sideband-2 packet
\* becomes the synthetic one, the later ones go, the others stay
RECURSIVE Filtered(_, _)
Filtered(pkts, first) ==
    IF pkts = <<>> THEN <<>>
    ELSE IF Head(pkts) = "sb2"
         THEN (IF first THEN UsingCachedPack ELSE <<>>) \o Filtered(Tail(pkts), FALSE)
         ELSE PktBytes(Head(pkts)) \o Filtered(Tail(pkts), first)

(* C22: for a well-formed stream that ends with a flush, however its first
   bytes were split off, the filter ends without error and its output is
   the input with the first sideband-2 packet replaced by the synthetic
   progress packet, the later sideband-2 packets dropped and every other
   packet (flush, delimiter, sideband-1, sideband-3, no sideband) kept. *)
C22_FilterOutput ==
    filt.done => (filt.err = "" /\ filt.out = Filtered(stream, TRUE))

\* where the synthetic progress packet and the sideband-1 frames stand in
\* the bytes written to the entry
SyntheticAt == {i \in DOMAIN filt.out : filt.out[i] = UsingCachedPack[6]}
DataAt == {i \in DOMAIN filt.out : filt.out[i] = SB1}

(* C23: an entry written by the filter, which is what send_pack serves
   byte for byte, holds the synthetic "using cached pack" packet exactly
   once, and before any sideband-1 frame. *)
C23_SyntheticOnceBeforeData ==
    (filt.done /\ filt.err = "")
    => /\ Cardinality(SyntheticAt) = 1
       /\ \A i \in SyntheticAt, j \in DataAt : i < j

\* the escalation of ensure_terminated
Escalation == <<"wait(timeout)", "terminate", "wait(30)", "kill", "wait(30)">>
IsPrefix(p, q) == Len(p) <= Len(q) /\ \A i \in DOMAIN p : p[i] = q[i]

(* C24: what a call of ensure_proc_terminated does is a prefix of wait
   (timeout), terminate, wait(30 s), kill, wait(30 s): one terminate, one
   kill after it, three bounded waits at most, then it returns; and a
   child whose returncode was set when the call started gets no signal. *)
C24_EscalationOrder ==
    \A k \in Kids : IsPrefix(et[k].log, Escalation)

(* C25: an empty request body is a no-op: run() writes nothing to the
   client, and neither the pack cache nor execute() (mirror, upstream) is
   reached. *)
C25_EmptyBodyNoOp ==
    (handler.ran /\ input = <<>>)
    => /\ ~handler.raised
       /\ handler.written = <<>>
       /\ ~handler.cached /\ ~handler.executed

(* C26: a body that parses and holds no want, such as the lone flush
   packet "0000", makes run() return silently: nothing is written to the
   client, and neither run_with_cache (cache entry, lock) nor execute()
   (git subprocess, upstream) is called. *)
C26_NoWantsSilent ==
    (handler.ran /\ ~ParseFails(input) /\ ~\E i \in DOMAIN input : input[i].k = "want")
    => /\ ~handler.raised
       /\ handler.written = <<>>
       /\ ~handler.cached /\ ~handler.executed

\* the lone flush packet was handled, and so was a flush followed by "done"
C26_Witness ==
    /\ handler.ran
    /\ input \in {<<Pkt("flush", "", {})>>, <<Pkt("flush", "", {}), Pkt("done", "", {})>>}
    /\ handler.written = <<>>

\* the coroutines of process p whose lease counts in lock_holder_num: those
\* in the body of `async with`, and those granted and not yet resumed
Holders(p) == {t \in Tasks : ProcOf(t) = p /\ (co[t].pc = "held" \/ t \in locks[p].granted)}

\* a coroutine of process p still waits for the lock
Waiting(p) == Live(locks[p].ex_waiters) \cup Live(locks[p].sh_waiters)

(* C27: a coroutine cancelled while it waits in acquire does not remain a
   lock holder: the holder count of a process is the number of its
   coroutines that hold or were just granted the lock, a cancelled one
   (back to idle) is not among them, and whenever coroutines wait while
   nobody of their process holds the lock, a step that goes on to serve
   them is pending. *)
C27_CancelledNeverHolds ==
    \A p \in Procs :
        /\ locks[p].lock_holder_num = Cardinality(Holders(p))
        /\ (Waiting(p) # {} /\ Holders(p) = {})
              => \/ locks[p].try_soon \/ locks[p].unlocked
                 \/ locks[p].state \in {"ACQUIRING_EX", "ACQUIRING_SH"}

\* a coroutine is granted the lock and not yet resumed, so that a
\* cancellation finds its future done, while another one waits behind it
C27_Witness ==
    \E t \in Tasks :
        /\ co[t].pc = "waiting"
        /\ t \in locks[ProcOf(t)].granted
        /\ Waiting(ProcOf(t)) # {}

\* the request is in a later attempt of execute(): it waits for, or runs,
\* an update of the mirror or another git-upload-pack
Retrying(r) == mq[r].pc \in {"upd_wait", "clone", "fetch", "git_wait", "up_wait", "up_run", "up_term"}

(* C28: within one request the client gets the output of at most one
   git-upload-pack run, and once a run's output was written to the client
   the request neither updates the mirror nor runs git-upload-pack
   again. *)
C28_OneRunReachesClient ==
    \A r \in Reqs :
        /\ mq[r].out <= 1
        /\ mq[r].out = 1 => ~Retrying(r)

\* the error of the last attempt was forwarded, the earlier attempts of
\* the same request having written nothing
C28_Witness ==
    \E r \in Reqs : mq[r].pc = "sent_err" /\ mq[r].out = 1 /\ ~mq[r].unk

(* C29: a run of git-upload-pack whose output begins with an ERR packet is
   not stored in the pack cache: when a request has ended its execute()
   with such a run, no valid entry exists for its fingerprint. *)
C29_ErrorNotCached ==
    \A r \in Reqs : rq[r].pc = "failed" => ~Exists(path, files)

(* C30: of the requests that decide to update the existing mirror after
   they saw the same mtime, one only runs fetch: when update() starts a
   fetch because the mtime is the saved one, no fetch has been started
   before for that mtime. *)
C30_OneFetchPerMtime ==
    [][\A r \in Reqs :
          (mq[r].pc = "upd_wait" /\ mq'[r].pc = "fetch") => ~mir.fetched]_vars

(* C31: a request whose git-upload-pack error is "not our ref" never
   removes and re-clones the mirror: force_update (rm -rf and clone of an
   existing mirror) is only started after two updates, and only when the
   error of the run before it was another one. *)
C31_NoRecloneOnNotOurRef ==
    [][\A r \in Reqs :
          (mq[r].pc = "upd_wait" /\ mq'[r].pc = "clone" /\ mir.exists)
          => (mq[r].step = 2 /\ ~mq[r].nor)]_vars

(* C32: the bundle file is created, overwritten or deleted only by a
   holder of the exclusive bundle lock, never under the shared lock. *)
C32_BundleWrittenUnderEx ==
    blast.op # "none" => blast.held = "EX"

\* t waits for the lock and no other coroutine asks for it or has it
Alone(t) ==
    /\ co[t].pc = "waiting"
    /\ \A u \in Tasks \ {t} : co[u].pc = "idle"

CanStep(t) ==
    /\ Active(t)
    /\ ot[t].wait =>
          IF OpOf(t).lock = "sema"
          THEN Permits > 0 /\ Head(semq) \in {0, t}
          ELSE CanLock(t, TRUE)

\* locks are taken in the order clean.lock, entry, mirror, then bundle or
\* semaphore: a task that waits for a lock holds only locks that come
\* before it
LockOrder ==
    \A t \in OTasks :
        (Active(t) /\ ot[t].wait)
        => \A h \in ot[t].held : LockRank(h.lock) < LockRank(OpOf(t).lock)

(* C33: requests, evictions and populates never deadlock: whenever a task
   waits for a lock, some task can take a step. *)
C33_NoDeadlock ==
    (\E t \in OTasks : Active(t) /\ ot[t].wait) => \E t \in OTasks : CanStep(t)

(* C35: unlinking the file that is the flock target never lets two
   processes hold the exclusive lock of the entry's path at once, one
   on the old file and one on the newly created one. *)
C35_OneExclusivePerPath ==
    \A p, q \in Procs :
        (clk[p].state = "ACQUIRED_EX" /\ clk[q].state = "ACQUIRED_EX") => p = q

(* C36: an entry is valid only if the child's output was complete: a
   populate whose child ended before the end of its output, also right
   after a flush packet that is not the last one, does not leave its file
   as a valid entry of the fingerprint. *)
C36_PrematureEndLeavesNoEntry ==
    [][\A j \in Jobs :
          (Ends(j) /\ jobs[j].total < Len(jobs[j].stream))
          => ~(path' = jobs[j].ino /\ Exists(path', files'))]_vars

(* C37: a waiter cancelled before it was granted the lock is removed from
   its queue: after Lock.acquire has handled the cancellation and the
   callbacks of the event loop have run, no queue of a lock record holds
   a cancelled future. *)
C37_CancelledLeavesQueue ==
    \A p \in Procs :
        (~locks[p].try_soon /\ ~locks[p].unlocked)
        => /\ \A i \in DOMAIN locks[p].ex_waiters : locks[p].ex_waiters[i] # CANCELLED
           /\ \A i \in DOMAIN locks[p].sh_waiters : locks[p].sh_waiters[i] # CANCELLED

\* the coroutines of process p that wait for the lock or hold it
Users(p) == {t \in Tasks : ProcOf(t) = p /\ co[t].pc # "idle"}

(* C38: the manager's record of a path is discarded when, and only when,
   the record is back to idle with no holder and no waiter: a process
   without a record has no coroutine that waits for the lock or holds it,
   and a record that is kept (its _release() over) is not idle. *)
C38_RecordDiscardedIffUnused ==
    \A p \in Procs :
        /\ ~locks[p].present => (Users(p) = {} /\ locks[p] = NewFLock)
        /\ (locks[p].present /\ ~locks[p].unlocked) => locks[p].state # "IDLE"

\* the last holder of a process has unlocked the file while a coroutine of
\* the process waits: _release() is about to decide on the record
C38_Witness ==
    \E p \in Procs :
        /\ locks[p].present /\ locks[p].unlocked
        /\ Users(p) # {}

(* C39: a wrapper stays usable after a cancelled acquire: every coroutine
   whose acquire has returned holds a real permit until its release, so
   that the coroutines in their `async with` block and the permits left
   never add up to more than the count. *)
C39_HolderHasPermit ==
    Cardinality({t \in Tasks : sm[t].pc = "held"}) + sem <= SemCount

(* C40: the holder count of a record is the number of coroutines of the
   process that hold a lease; it is above 1 only in the shared acquired
   state; and every lease is covered by the flock of its mode, which the
   process holds while the record is in the acquired state. *)
C40_HolderCount ==
    \A p \in Procs :
        /\ Cardinality(Holders(p)) = locks[p].lock_holder_num
        /\ locks[p].lock_holder_num > 1 => locks[p].state = "ACQUIRED_SH"
        /\ \A t \in Holders(p) : co[t].mode = OsHeld(locks[p])

\* the shared waiters of a process were granted the lock as a batch
C40_Witness ==
    \E p \in Procs :
        /\ locks[p].state = "ACQUIRED_SH"
        /\ locks[p].lock_holder_num >= 2
        /\ Cardinality(locks[p].granted) >= 2

====
